---------------------------- MODULE Spec2Model ----------------------------
(***************************************************************************)
(* Model of the audio processing and routing engine:                       *)
(*   audio_processing/processors.py  (AudioProcessor, Equalizer,           *)
(*                                    BassBoost, SpatialEnhancer,          *)
(*                                    NoiseReducer)                        *)
(*   core/virtual_devices.py         (VirtualAudioDevice,                  *)
(*                                    VirtualAudioRouter)                  *)
(*   core/audio_router.py            (AudioRoutingSystem)                  *)
(*   core/audio_devices.py           (AudioDeviceManager)                  *)
(*                                                                         *)
(* Python indices are kept 0-based: arrays are functions over 0..n-1.      *)
(* Python None is the string "None".                                       *)
(***************************************************************************)
EXTENDS Integers, Sequences, FiniteSets, TLC

VARIABLES
    eq,          \* the Equalizer object (record of its attributes)
    eqCall,      \* the last call made on the equalizer and how it ended
    lastSet,     \* <<band, gain>> of the last successful set_gain, if still pending
    ticksSince,  \* enabled process() ticks since that set_gain
    rt,          \* position and saved inputs of the resize round trip
    proc,        \* a processor object of any variant, called directly
    procCall,    \* the last call made on proc and how it ended
    chain,       \* VirtualAudioDevice.processing_chain (the list bound to it)
    configured,  \* processors that have received set_format from the bus
    stream,      \* VirtualAudioDevice.stream: "None", "created" or "started"
    is_active,   \* VirtualAudioDevice.is_active
    cbPc,        \* the audio callback: "idle", "iter", "done" or "raised"
    cbIdx,       \* index of the callback's list iterator
    cbLive,      \* the iterator's list is still the one bound to the bus
    cbOld,       \* the iterator's list when it is no longer bound to the bus
    trace,       \* this tick's stages in call order, each with its outcome
    snaps,       \* the chain's contents at each instant of this tick
    devices,         \* AudioDeviceManager.devices (the last enumeration)
    active_devices,  \* AudioDeviceManager.active_devices
    routes,          \* AudioRoutingSystem.routes
    unified_device_mode,     \* AudioRoutingSystem.unified_device_mode
    unified_output_device,   \* AudioRoutingSystem.unified_output_device
    unified_input_device,    \* AudioRoutingSystem.unified_input_device
    virtual_devices,  \* VirtualAudioRouter.virtual_devices, in insertion order
    routing_table,    \* VirtualAudioRouter.routing_table
    routeCall,        \* the last call made on the routing system and how it ended
    busCall,          \* the last call made on a bus of the router and how it ended
    delivered,        \* the set_format calls made by the start() in progress or last made
    buffer,           \* VirtualAudioDevice.buffer[:frames]
    tick,             \* the last callback tick: its indata, stages and outdata
    host,             \* the devices PortAudio would report now, by index
    monitoring,       \* AudioDeviceManager.monitoring
    monitor_thread,   \* AudioDeviceManager.monitor_thread (a thread number)
    threads,          \* every _monitor_devices thread started, in start order
    monCall,          \* the last monitoring command and how far it has got
    sessions,         \* the audio sessions the operating system reports now
    session_categories,  \* AudioRoutingSystem.session_categories
    session_routes,      \* AudioDeviceManager.session_routes
    device_volumes,      \* AudioDeviceManager.device_volumes
    session_overrides,   \* ConfigPanel.session_overrides (by lower-case name)
    sessCall          \* the last session or category command and how it ended

eqVars == <<eq, eqCall, lastSet, ticksSince, rt>>

procVars == <<proc, procCall>>

busVars == <<chain, configured, stream, is_active, cbPc, cbIdx, cbLive, cbOld,
            trace, snaps>>

routeVars == <<devices, active_devices, routes, unified_device_mode,
              unified_output_device, unified_input_device, virtual_devices,
              routing_table, routeCall>>

tickVars == <<delivered, buffer, tick>>

lifeVars == <<busCall, delivered, buffer, tick>>

sessVars == <<sessions, session_categories, session_routes, device_volumes,
             session_overrides, sessCall>>

monVars == <<host, monitoring, monitor_thread, threads, monCall>>

vars == <<eq, eqCall, lastSet, ticksSince, rt, proc, procCall,
         chain, configured, stream, is_active, cbPc, cbIdx, cbLive, cbOld,
         trace, snaps,
         devices, active_devices, routes, unified_device_mode,
         unified_output_device, unified_input_device, virtual_devices,
         routing_table, routeCall, busCall, delivered, buffer, tick,
         sessions, session_categories,
         session_routes, device_volumes, session_overrides, sessCall,
         host, monitoring, monitor_thread, threads, monCall>>

(***************************************************************************)
(* Bounds of the model.                                                    *)
(***************************************************************************)
MaxBands == 2        \* largest band count the model constructs or resizes to
MaxFrames == 2       \* longest mono buffer (in frames) handed to process()
MaxStereoFrames == 1 \* longest two-channel buffer (in frames)
NeededTicks == 8     \* ticks covering 5 x 30 ms at 1024 frames / 48 kHz
NumProcs == 4        \* processor objects available to put in a chain
MaxChain == 2        \* longest processing chain
MaxMutations == 2    \* chain mutations interleaved with one callback tick

GainValues == {-6, 0, 6}      \* gains in dB handed to set_gain

(***************************************************************************)
(* Exact rational samples <<num, den>>, den > 0, in lowest terms.          *)
(* A float NaN is <<0, 0>>.                                                *)
(***************************************************************************)
RECURSIVE Gcd(_, _)
Gcd(a, b) == IF b = 0 THEN a ELSE Gcd(b, a % b)

Abs(x) == IF x < 0 THEN -x ELSE x

NaN == <<0, 0>>

IsNaN(x) == x[2] = 0

Rat(n, d) ==
    LET g == Gcd(Abs(n), Abs(d))
        s == IF d < 0 THEN -1 ELSE 1
    IN  IF d = 0 THEN NaN ELSE <<(s * n) \div g, (s * d) \div g>>

RMul(x, y) == IF IsNaN(x) \/ IsNaN(y) THEN NaN ELSE Rat(x[1] * y[1], x[2] * y[2])

RAdd(x, y) ==
    IF IsNaN(x) \/ IsNaN(y) THEN NaN ELSE Rat(x[1] * y[2] + y[1] * x[2], x[2] * y[2])

RSub(x, y) == RAdd(x, IF IsNaN(y) THEN NaN ELSE <<-y[1], y[2]>>)

RAbs(x) == IF IsNaN(x) THEN NaN ELSE <<Abs(x[1]), x[2]>>

\* x <= y on non-NaN rationals
RLe(x, y) == x[1] * y[2] <= y[1] * x[2]

RInt(n) == <<n, 1>>

(***************************************************************************)
(* numpy arrays: a shape and the samples in row-major order.               *)
(* filt lists the IIR filters that scipy.signal.lfilter has been applied   *)
(* with along axis 0 (their coefficients are kept symbolically).           *)
(***************************************************************************)
RECURSIVE Prod(_)
Prod(s) == IF s = <<>> THEN 1 ELSE Head(s) * Prod(Tail(s))

Size(a) == Prod(a.shape)

Array(shape, data) == [shape |-> shape, data |-> data, filt |-> <<>>]

(***************************************************************************)
(* numpy.logspace(log10(20), log10(20000), n): the i-th frequency is       *)
(* 10 ** (log10(20) + i * step), step = (log10(20000) - log10(20))/(n-1),  *)
(* i.e. 20 * 1000 ** (i/(n-1)).  A frequency is kept as the exact exponent *)
(* fraction i/(n-1) of 1000, in lowest terms; n = 1 gives the start alone. *)
(***************************************************************************)
Logspace(n) ==
    [i \in 0..(n - 1) |-> IF n = 1 THEN <<0, 1>> ELSE Rat(i, n - 1)]

Zeros(n) == [i \in 0..(n - 1) |-> 0]

Len0(f) == Cardinality(DOMAIN f)

Min(a, b) == IF a < b THEN a ELSE b

Max(a, b) == IF a > b THEN a ELSE b

(***************************************************************************)
(* Equalizer.update_filters(gains): one (b, a) pair per band whose gain is *)
(* at least 0.1 dB in magnitude, in band order.  The Butterworth design is *)
(* kept symbolically: its kind, its frequency, the linear gain's dB value  *)
(* and which coefficient vector the gain scales.                           *)
(***************************************************************************)
FilterRole(i, bands) ==
    IF i = 0 THEN "low" ELSE IF i = bands - 1 THEN "high" ELSE "band"

DesignFilter(i, bands, freq, gain_db) ==
    [band |-> i, role |-> FilterRole(i, bands), freq |-> freq,
     gain_db |-> gain_db, scaled |-> IF gain_db > 0 THEN "b" ELSE "a"]

RECURSIVE FiltersFrom(_, _, _, _)
FiltersFrom(i, bands, frequencies, gains) ==
    IF i >= Len0(frequencies) THEN <<>>
    ELSE IF Abs(gains[i]) < 1   \* abs(gains[i]) < 0.1 on whole-dB gains
         THEN FiltersFrom(i + 1, bands, frequencies, gains)
         ELSE <<DesignFilter(i, bands, frequencies[i], gains[i])>>
              \o FiltersFrom(i + 1, bands, frequencies, gains)

UpdateFilters(e, gains) ==
    [e EXCEPT !.filters = FiltersFrom(0, e.bands, e.frequencies, gains)]

(***************************************************************************)
(* scipy.signal.butter raises ValueError unless every critical frequency   *)
(* Wn satisfies 0 < Wn < 1.  FreqHz is the band frequency of Logspace in   *)
(* Hz (20 * 1000 ** fraction, rounded down).                               *)
(***************************************************************************)
FreqHz(fraction) ==
    CASE fraction = <<0, 1>> -> 20
      [] fraction = <<1, 3>> -> 200
      [] fraction = <<1, 2>> -> 632
      [] fraction = <<2, 3>> -> 2000
      [] fraction = <<1, 1>> -> 20000

\* Wn = freq / (sample_rate/2) for 'low' and 'high'; for 'band' the edges
\* (freq - freq/2) / (sample_rate/2) and (freq + freq/2) / (sample_rate/2)
ButterValid(role, freq_hz, sample_rate) ==
    IF role = "band"
    THEN sample_rate > 0 /\ freq_hz > 0 /\ 3 * freq_hz < sample_rate
    ELSE sample_rate > 0 /\ freq_hz > 0 /\ 2 * freq_hz < sample_rate

\* Equalizer.update_filters(gains) as a call: the filters appended before
\* the first design that raises stay in self.filters
RECURSIVE DesignFrom(_, _, _, _)
DesignFrom(i, e, gains, done) ==
    IF i >= Len0(e.frequencies) THEN [filters |-> done, raised |-> "None"]
    ELSE IF Abs(gains[i]) < 1
    THEN DesignFrom(i + 1, e, gains, done)
    ELSE IF ~ButterValid(FilterRole(i, e.bands), FreqHz(e.frequencies[i]),
                         e.sample_rate)
    THEN [filters |-> done, raised |-> "ValueError"]
    ELSE DesignFrom(i + 1, e, gains,
                    Append(done, DesignFilter(i, e.bands, e.frequencies[i],
                                              gains[i])))

UpdateFiltersCall(e, gains) ==
    LET r == DesignFrom(0, e, gains, <<>>)
    IN  [eq |-> [e EXCEPT !.filters = r.filters], raised |-> r.raised]

\* Equalizer.__init__(sample_rate, bands): update_filters() on zero gains
EqualizerInit(sample_rate, bands) ==
    LET e == [kind |-> "Equalizer", enabled |-> TRUE, sample_rate |-> sample_rate,
              channels |-> "None", blocksize |-> "None", bands |-> bands,
              native |-> "None", frequencies |-> Logspace(bands),
              gains |-> Zeros(bands), smoothed_gains |-> Zeros(bands),
              smoothing_tau_ms |-> 30, needs_update |-> TRUE,
              output_gain_db |-> 0, filters |-> <<>>]
    IN  UpdateFiltersCall(e, e.gains)

\* Equalizer.set_format(sample_rate): the base class stores the rate, then
\* update_filters() inside try/except
EqualizerSetFormat(e, sample_rate) ==
    LET e1 == [e EXCEPT !.sample_rate = sample_rate]
    IN  [eq |-> UpdateFiltersCall(e1, e1.gains).eq, raised |-> "None"]

(***************************************************************************)
(* Equalizer.__init__(sample_rate=48000, bands)                            *)
(***************************************************************************)
NewEqualizer(bands) ==
    UpdateFilters(
        [kind |-> "Equalizer", enabled |-> TRUE, sample_rate |-> 48000, channels |-> "None",
         blocksize |-> "None", bands |-> bands, native |-> "None",
         frequencies |-> Logspace(bands), gains |-> Zeros(bands),
         smoothed_gains |-> Zeros(bands), smoothing_tau_ms |-> 30,
         needs_update |-> TRUE, output_gain_db |-> 0, filters |-> <<>>],
        Zeros(bands))

(***************************************************************************)
(* Equalizer.set_gain(band, gain_db): the result and the object after it.  *)
(***************************************************************************)
SetGainNoLowerCheck(e, band, gain_db) ==
    IF band >= e.bands
    THEN [raised |-> "ValueError", eq |-> e]
    ELSE LET k == IF band < 0 THEN e.bands + band ELSE band
         IN  [raised |-> "None",
              eq |-> [e EXCEPT !.gains[k] = gain_db, !.needs_update = TRUE]]

\* a set_gain that redesigns the filters before it returns
SetGainRebuild(e, band, gain_db) ==
    IF band < 0 \/ band >= e.bands
    THEN [raised |-> "ValueError", eq |-> e]
    ELSE LET e1 == [e EXCEPT !.gains[band] = gain_db, !.needs_update = TRUE]
         IN  [raised |-> "None", eq |-> UpdateFilters(e1, e1.gains)]

SetGain(e, band, gain_db) ==
    IF band < 0 \/ band >= e.bands
    THEN [raised |-> "ValueError", eq |-> e]
    ELSE [raised |-> "None",
          eq |-> [e EXCEPT !.gains[band] = gain_db, !.needs_update = TRUE]]

(***************************************************************************)
(* Equalizer.set_bands(bands)                                              *)
(***************************************************************************)
SetBandsDropGains(e, n) ==
    LET bands == Max(1, n)
        e1 == [e EXCEPT !.bands = bands, !.frequencies = Logspace(bands),
                        !.gains = Zeros(bands), !.smoothed_gains = Zeros(bands)]
    IN  UpdateFilters(e1, e1.smoothed_gains)

SetBands(e, n) ==
    LET bands == Max(1, n)
        old_gains == e.gains
        copy_count == Min(Len0(old_gains), bands)
        new_gains == [i \in 0..(bands - 1) |->
                         IF i < copy_count THEN old_gains[i] ELSE 0]
        e1 == [e EXCEPT !.bands = bands, !.frequencies = Logspace(bands),
                        !.gains = new_gains, !.smoothed_gains = new_gains]
    IN  UpdateFilters(e1, e1.smoothed_gains)


(***************************************************************************)
(* A call's outcome: the returned array, the exception that left the call  *)
(* ("None" when it returned) and the caller's array after the call (numpy  *)
(* in-place operators write through to it).                                *)
(***************************************************************************)
Returned(ret, argAfter) == [ret |-> ret, raised |-> "None", argAfter |-> argAfter]

Raised(exc, data) == [ret |-> data, raised |-> exc, argAfter |-> data]

MapData(a, F(_)) == [a EXCEPT !.data = [k \in 1..Len(a.data) |-> F(a.data[k])]]

(***************************************************************************)
(* Equalizer._process_impl(data): data *= self.gains[band] for each band,  *)
(* in place.                                                               *)
(***************************************************************************)
RECURSIVE ScaleByGains(_, _, _, _)
ScaleByGains(data, gains, band, bands) ==
    IF band >= bands THEN data
    ELSE LET Scale(x) == RMul(x, RInt(gains[band]))
         IN  ScaleByGains(MapData(data, Scale), gains, band + 1, bands)

EqualizerProcessImpl(e, data) ==
    IF e.bands = 0 \/ Size(data) = 0
    THEN Returned(data, data)
    ELSE LET out == ScaleByGains(data, e.gains, 0, e.bands)
         IN  Returned(out, out)

(***************************************************************************)
(* BassBoost                                                               *)
(***************************************************************************)
BassFilter(sample_rate, cutoff, gain_db) ==
    [design |-> "butter2low", sample_rate |-> sample_rate, cutoff |-> cutoff,
     b_gain_db |-> gain_db]

NewBassBoost(cutoff, gain_db) ==
    [kind |-> "BassBoost", enabled |-> TRUE, sample_rate |-> 48000,
     channels |-> "None", blocksize |-> "None", cutoff |-> cutoff,
     gain_db |-> gain_db, ba |-> BassFilter(48000, cutoff, gain_db)]

\* BassBoost.__init__(sample_rate, cutoff, gain_db): update_filter() is
\* called with no handler around it
BassBoostInit(sample_rate, cutoff, gain_db) ==
    IF ButterValid("low", cutoff, sample_rate)
    THEN [obj |-> [kind |-> "BassBoost", enabled |-> TRUE,
                   sample_rate |-> sample_rate, channels |-> "None",
                   blocksize |-> "None", cutoff |-> cutoff, gain_db |-> gain_db,
                   ba |-> BassFilter(sample_rate, cutoff, gain_db)],
          raised |-> "None"]
    ELSE [obj |-> "None", raised |-> "ValueError"]

\* BassBoost.set_format(sample_rate): update_filter() inside try/except; when
\* it raises, self.b and self.a keep the previous design
BassBoostSetFormat(p, sample_rate) ==
    [p EXCEPT !.sample_rate = sample_rate,
              !.ba = IF ButterValid("low", p.cutoff, sample_rate)
                     THEN BassFilter(sample_rate, p.cutoff, p.gain_db)
                     ELSE @]

BassBoostProcessImpl(p, data) ==
    Returned([data EXCEPT !.filt = Append(@, p.ba)], data)

(***************************************************************************)
(* SpatialEnhancer                                                         *)
(***************************************************************************)
Clamp01(x) == IF RLe(x, RInt(0)) THEN RInt(0) ELSE IF RLe(RInt(1), x) THEN RInt(1) ELSE x

NewSpatialEnhancer(width) ==
    [kind |-> "SpatialEnhancer", enabled |-> TRUE, sample_rate |-> "None",
     channels |-> "None", blocksize |-> "None", width |-> Clamp01(width)]

RECURSIVE MaxAbs(_)
MaxAbs(seq) ==
    IF Len(seq) = 1 THEN RAbs(seq[1])
    ELSE LET m == MaxAbs(Tail(seq))
             h == RAbs(seq[1])
         IN  IF RLe(m, h) THEN h ELSE m

RDiv(x, y) == RMul(x, <<y[2], y[1]>>)    \* y > 0

Half(x) == RMul(x, <<1, 2>>)

\* the same widening without the final division by max_val
SpatialEnhancerNoNormalize(p, data) ==
    IF Len(data.shape) < 2
    THEN Raised("IndexError", data)
    ELSE IF data.shape[2] # 2
    THEN Returned(data, data)
    ELSE IF data.shape[1] = 0
    THEN Raised("ValueError", data)
    ELSE
      LET frames == data.shape[1]
          L(f) == data.data[2 * (f - 1) + 1]
          R(f) == data.data[2 * (f - 1) + 2]
          mid(f) == Half(RAdd(L(f), R(f)))
          side(f) == RMul(Half(RSub(L(f), R(f))), RAdd(RInt(1), p.width))
          stacked == [k \in 1..(2 * frames) |->
                        IF k % 2 = 1 THEN RAdd(mid((k + 1) \div 2), side((k + 1) \div 2))
                        ELSE RSub(mid(k \div 2), side(k \div 2))]
      IN  Returned(Array(data.shape, stacked), data)

SpatialEnhancerProcessImpl(p, data) ==
    IF Len(data.shape) < 2
    THEN Raised("IndexError", data)             \* data.shape[1]
    ELSE IF data.shape[2] # 2
    THEN Returned(data, data)
    ELSE IF data.shape[1] = 0
    THEN Raised("ValueError", data)             \* np.max of an empty array
    ELSE
      LET frames == data.shape[1]
          L(f) == data.data[2 * (f - 1) + 1]
          R(f) == data.data[2 * (f - 1) + 2]
          mid(f) == Half(RAdd(L(f), R(f)))
          side(f) == RMul(Half(RSub(L(f), R(f))), RAdd(RInt(1), p.width))
          stacked == [k \in 1..(2 * frames) |->
                        IF k % 2 = 1 THEN RAdd(mid((k + 1) \div 2), side((k + 1) \div 2))
                        ELSE RSub(mid(k \div 2), side(k \div 2))]
          max_val == MaxAbs(stacked)
          result == IF ~RLe(max_val, RInt(1))
                    THEN [k \in 1..(2 * frames) |-> RDiv(stacked[k], max_val)]
                    ELSE stacked
      IN  Returned(Array(data.shape, result), data)

(***************************************************************************)
(* NoiseReducer                                                            *)
(***************************************************************************)
NewNoiseReducer(threshold) ==
    [kind |-> "NoiseReducer", enabled |-> TRUE, sample_rate |-> "None",
     channels |-> "None", blocksize |-> "None", threshold |-> threshold]

\* np.clip((magnitude - threshold) / threshold, 0, 1) in float arithmetic:
\* x/0 is +inf for x > 0 and NaN for x = 0, and clip keeps NaN.
SoftMask(x, threshold) ==
    LET d == RSub(RAbs(x), threshold)
    IN  IF threshold[1] = 0
        THEN (IF d[1] = 0 THEN NaN ELSE IF d[1] > 0 THEN RInt(1) ELSE RInt(0))
        ELSE Clamp01(RDiv(d, threshold))

NoiseReducerProcessImpl(p, data) ==
    IF Len(data.shape) = 1
    THEN LET Gate(x) == RMul(x, SoftMask(x, p.threshold))
         IN  Returned(MapData(data, Gate), data)
    ELSE \* data (f, c) times soft_mask[:, np.newaxis] (f, 1, c) broadcasts
         \* to (f, f, c): out[i, j, k] = data[j, k] * soft_mask[i, k]
         LET f == data.shape[1]
             c == data.shape[2]
             At(j, k) == data.data[j * c + k + 1]
             out == [n \in 1..(f * f * c) |->
                       LET i == (n - 1) \div (f * c)
                           j == ((n - 1) \div c) % f
                           k == (n - 1) % c
                       IN  RMul(At(j, k), SoftMask(At(i, k), p.threshold))]
         IN  Returned(Array(<<f, f, c>>, out), data)

(***************************************************************************)
(* The native backend held in Equalizer._native: "None" when absent,       *)
(* otherwise an engine whose process call works ("engine") or raises       *)
(* ("failing engine").  A working engine returns a new array of the        *)
(* input's shape; a raising one leaves the array it was handed as it was.  *)
(***************************************************************************)
NativeStates == {"None", "engine", "failing engine"}

NativeProcess(native, e, data) ==
    IF native = "failing engine"
    THEN Raised("RuntimeError", data)
    ELSE Returned(ScaleByGains(data, e.gains, 0, e.bands), data)

(***************************************************************************)
(* The body of Equalizer.process once enabled: the try block choosing the  *)
(* backend or _process_impl, and the handler that returns data.            *)
(***************************************************************************)
EqualizerTryNoCatch(e, data) ==
    IF e.native # "None"
    THEN NativeProcess(e.native, e, data)
    ELSE EqualizerProcessImpl(e, data)

EqualizerTry(e, data) ==
    LET r == IF e.native # "None"
             THEN NativeProcess(e.native, e, data)
             ELSE EqualizerProcessImpl(e, data)
    IN  IF r.raised # "None" THEN Returned(r.argAfter, r.argAfter) ELSE r

(***************************************************************************)
(* AudioProcessor.process / Equalizer.process: the enable gate, then the   *)
(* variant's _process_impl.  Equalizer.process wraps the implementation in *)
(* try/except and returns data when it raises.                             *)
(***************************************************************************)
ProcessImpl(p, data) ==
    CASE p.kind = "Equalizer" -> EqualizerTry(p, data)
      [] p.kind = "BassBoost" -> BassBoostProcessImpl(p, data)
      [] p.kind = "SpatialEnhancer" -> SpatialEnhancerProcessImpl(p, data)
      [] p.kind = "NoiseReducer" -> NoiseReducerProcessImpl(p, data)

ProcessUngated(p, data) == ProcessImpl(p, data)

Process(p, data) ==
    IF ~p.enabled THEN Returned(data, data) ELSE ProcessImpl(p, data)

(***************************************************************************)
(* AudioProcessor.enable / disable / toggle, setters                       *)
(***************************************************************************)
Enable(p) == [p EXCEPT !.enabled = TRUE]

Disable(p) == [p EXCEPT !.enabled = FALSE]

Toggle(p) == [p EXCEPT !.enabled = ~p.enabled]

SetWidth(p, width) == [p EXCEPT !.width = Clamp01(width)]

SetThreshold(p, threshold) == [p EXCEPT !.threshold = Clamp01(threshold)]

SetOutputGain(e, gain_db) == [e EXCEPT !.output_gain_db = gain_db]

SetSmoothingTime(e, tau_ms) == [e EXCEPT !.smoothing_tau_ms = Max(0, tau_ms)]

(***************************************************************************)
(* Inputs                                                                  *)
(***************************************************************************)
Samples == {<<0, 1>>, <<1, 2>>, <<-3, 2>>}

Tuples(S, n) == [1..n -> S]

\* one-dimensional and (frames, 1) arrays of up to MaxFrames frames, and
\* (frames, 2) arrays of up to MaxStereoFrames frames
Buffers ==
    UNION {
        {Array(<<f>>, d) : d \in Tuples(Samples, f)}
        \cup {Array(<<f, 1>>, d) : d \in Tuples(Samples, f)}
      : f \in 0..MaxFrames }
    \cup UNION {
        {Array(<<f, 2>>, d) : d \in Tuples(Samples, 2 * f)}
      : f \in 0..MaxStereoFrames }

NoArray == Array(<<0>>, <<>>)

Fractions == {<<0, 1>>, <<1, 2>>, <<1, 1>>}

NoCall == [op |-> "None", a |-> 0, b |-> 0, raised |-> "None",
           arg |-> NoArray, ret |-> NoArray, argAfter |-> NoArray]

Call(op, a, b, raised) == [NoCall EXCEPT !.op = op, !.a = a, !.b = b, !.raised = raised]

ProcessCall(data, r) ==
    [NoCall EXCEPT !.op = "process", !.raised = r.raised, !.arg = data,
                   !.ret = r.ret, !.argAfter = r.argAfter]

NoRoundTrip == [pc |-> "setup", n |-> 0, m |-> 0,
                gains |-> Zeros(0), frequencies |-> Zeros(0)]

(***************************************************************************)
(* Devices and categories                                                  *)
(***************************************************************************)
NoId == -1                           \* None as a device id

AudioTypes == <<"game", "others", "system", "chat", "microphone">>

OutputTypes == <<"game", "others", "system", "chat">>

NoDevice == [index |-> NoId, type |-> "None"]

NoRoute == [device |-> NoId, bus |-> "None"]

NoRouteCall == [op |-> "None", audio_type |-> "None", bus |-> "None",
                raised |-> "None", ret |-> "None", stops |-> 0]

\* what PyAudio reports: device i of the host has output channels ("out"),
\* input channels ("in") or both ("duplex")
Hardware == { <<"out", "out", "in">>, <<"out", "in">>, <<"duplex", "out", "in">> }

\* AudioDeviceManager._enumerate_devices: every device with output channels,
\* by index, then every device with input channels, by index
EnumerateDevices(hw) ==
    LET all == [i \in 1..Len(hw) |-> i - 1]
        HasOut(i) == hw[i + 1] \in {"out", "duplex"}
        HasIn(i) == hw[i + 1] \in {"in", "duplex"}
        outs == SelectSeq(all, HasOut)
        ins == SelectSeq(all, HasIn)
    IN  [k \in 1..Len(outs) |-> [index |-> outs[k], type |-> "output"]]
        \o [k \in 1..Len(ins) |-> [index |-> ins[k], type |-> "input"]]

\* next((d for d in self.devices if d['index'] == device_index), None)
RECURSIVE FindDevice(_, _)
FindDevice(devs, device_index) ==
    IF devs = <<>> THEN NoDevice
    ELSE IF Head(devs).index = device_index THEN Head(devs)
    ELSE FindDevice(Tail(devs), device_index)

\* Python truth value of a device id: None and 0 are false
Truthy(id) == id # NoId /\ id # 0

RouteIdle ==
    /\ devices = <<>>
    /\ active_devices = [t \in {} |-> NoDevice]
    /\ routes = [t \in {} |-> NoRoute]
    /\ unified_device_mode = FALSE
    /\ unified_output_device = NoId
    /\ unified_input_device = NoId
    /\ virtual_devices = <<>>
    /\ routing_table = [b \in {} |-> "None"]
    /\ routeCall = NoRouteCall

NoSet == <<-1, 0>>

IdleProc == NewNoiseReducer(<<1, 10>>)

IdleEq == NewEqualizer(1)

EqIdle ==
    /\ eq = IdleEq /\ eqCall = NoCall /\ lastSet = NoSet /\ ticksSince = 0
    /\ rt = NoRoundTrip

ProcIdle == proc = IdleProc /\ procCall = NoCall

BusIdle ==
    /\ chain = <<>> /\ configured = {} /\ stream = "None" /\ is_active = FALSE
    /\ cbPc = "idle" /\ cbIdx = 0 /\ cbLive = TRUE /\ cbOld = <<>>
    /\ trace = <<>> /\ snaps = {}

NoBusCall ==
    [op |-> "None", bus |-> "None", outcome |-> "None", raised |-> "None",
     opened |-> 0, closed |-> 0, stream |-> "None", is_active |-> FALSE]

\* np.zeros((buffer_size, channels)), as much of it as a tick uses
ZerosBuffer ==
    Array(<<MaxStereoFrames, 2>>, [k \in 1..(2 * MaxStereoFrames) |-> RInt(0)])

\* pc, bands, band and seen are the locals of an Equalizer._process_impl
\* in progress: where it is, the range(self.bands) it iterates, the loop
\* index, and the band count and gain array length it has read together
NoTick ==
    [indata |-> NoArray, outdata |-> NoArray, stages |-> <<>>,
     raised |-> "None", pc |-> "idle", bands |-> 0, band |-> 0, seen |-> <<>>]

LifeIdle ==
    /\ busCall = NoBusCall /\ delivered = <<>> /\ buffer = ZerosBuffer
    /\ tick = NoTick

NoSessCall ==
    [op |-> "None", pid |-> NoId, category |-> "None", device |-> NoId,
     level |-> 0, os |-> "None", raised |-> "None", ret |-> "None",
     list |-> <<>>, processor |-> 0]

SessIdle ==
    /\ sessions = <<>>
    /\ session_categories = [p \in {} |-> "None"]
    /\ session_routes = [p \in {} |-> NoId]
    /\ device_volumes = [d \in {} |-> 0]
    /\ session_overrides = [n \in {} |-> "None"]
    /\ sessCall = NoSessCall

\* changed: the host's devices have changed while monitoring was on and no
\* refresh_devices has run since
NoMonCall == [op |-> "None", pc |-> "done", changed |-> FALSE]

MonIdle ==
    /\ host = <<>> /\ monitoring = FALSE /\ monitor_thread = NoId
    /\ threads = <<>> /\ monCall = NoMonCall

(***************************************************************************)
(* Calls on the equalizer object                                           *)
(***************************************************************************)
EqSetGainCall(band, gain_db) ==
    LET r == SetGain(eq, band, gain_db)
    IN  /\ eq' = r.eq
        /\ eqCall' = Call("set_gain", band, gain_db, r.raised)

EqSetBandsCall(n) ==
    /\ eq' = SetBands(eq, n)
    /\ eqCall' = Call("set_bands", n, 0, "None")

EqProcessCall(data) ==
    LET r == Process(eq, data)
    IN  /\ eq' = eq
        /\ eqCall' = ProcessCall(data, r)

(***************************************************************************)
(* SpecEq: an equalizer driven through its public methods.                 *)
(***************************************************************************)
EqSetGain ==
    \E band \in -1..MaxBands, gain_db \in GainValues :
        /\ EqSetGainCall(band, gain_db)
        /\ UNCHANGED <<lastSet, ticksSince, rt, procVars, busVars, routeVars, lifeVars, sessVars, monVars>>

EqSetBands ==
    \E n \in 0..MaxBands :
        /\ EqSetBandsCall(n)
        /\ UNCHANGED <<lastSet, ticksSince, rt, procVars, busVars, routeVars, lifeVars, sessVars, monVars>>

EqSetOutputGain ==
    \E gain_db \in {0, 6} :
        /\ eq' = SetOutputGain(eq, gain_db)
        /\ eqCall' = Call("set_output_gain", gain_db, 0, "None")
        /\ UNCHANGED <<lastSet, ticksSince, rt, procVars, busVars, routeVars, lifeVars, sessVars, monVars>>

EqSetSmoothingTime ==
    \E tau_ms \in {-10, 30} :
        /\ eq' = SetSmoothingTime(eq, tau_ms)
        /\ eqCall' = Call("set_smoothing_time", tau_ms, 0, "None")
        /\ UNCHANGED <<lastSet, ticksSince, rt, procVars, busVars, routeVars, lifeVars, sessVars, monVars>>

EqEnable ==
    /\ eq' = Enable(eq)
    /\ eqCall' = Call("enable", 0, 0, "None")
    /\ UNCHANGED <<lastSet, ticksSince, rt, procVars, busVars, routeVars, lifeVars, sessVars, monVars>>

EqDisable ==
    /\ eq' = Disable(eq)
    /\ eqCall' = Call("disable", 0, 0, "None")
    /\ UNCHANGED <<lastSet, ticksSince, rt, procVars, busVars, routeVars, lifeVars, sessVars, monVars>>

EqProcess ==
    \E data \in {b \in Buffers : Size(b) <= 1} :
        /\ EqProcessCall(data)
        /\ UNCHANGED <<lastSet, ticksSince, rt, procVars, busVars, routeVars, lifeVars, sessVars, monVars>>

\* an engine put in Equalizer._native, or taken out of it
EqAttachNative ==
    \E native \in NativeStates :
        /\ eq' = [eq EXCEPT !.native = native]
        /\ eqCall' = Call("_native", 0, 0, "None")
        /\ UNCHANGED <<lastSet, ticksSince, rt, procVars, busVars, routeVars, lifeVars, sessVars, monVars>>

InitEq ==
    /\ eq \in {NewEqualizer(n) : n \in 1..MaxBands}
    /\ eqCall = NoCall /\ lastSet = NoSet /\ ticksSince = 0 /\ rt = NoRoundTrip
    /\ ProcIdle /\ BusIdle /\ RouteIdle /\ LifeIdle /\ SessIdle /\ MonIdle

NextEq ==
    \/ EqSetGain
    \/ EqSetBands
    \/ EqSetOutputGain
    \/ EqSetSmoothingTime
    \/ EqEnable
    \/ EqDisable
    \/ EqProcess

SpecEq == InitEq /\ [][NextEq]_vars

(***************************************************************************)
(* SpecNative: the same equalizer with a native backend absent, present    *)
(* or failing.                                                             *)
(***************************************************************************)
NextNative ==
    \/ EqSetGain
    \/ EqEnable
    \/ EqDisable
    \/ EqProcess
    \/ EqAttachNative

SpecNative == InitEq /\ [][NextNative]_vars

(***************************************************************************)
(* SpecSmooth: set_gain followed by processing ticks, counting the enabled *)
(* ticks on a non-empty buffer since the last set_gain.                    *)
(***************************************************************************)
SmoothSetGain ==
    \E band \in 0..(eq.bands - 1), gain_db \in GainValues :
        /\ EqSetGainCall(band, gain_db)
        /\ lastSet' = <<band, gain_db>>
        /\ ticksSince' = 0
        /\ UNCHANGED <<rt, procVars, busVars, routeVars, lifeVars, sessVars, monVars>>

SmoothSetBands ==
    \E n \in 1..MaxBands :
        /\ EqSetBandsCall(n)
        /\ lastSet' = NoSet
        /\ ticksSince' = 0
        /\ UNCHANGED <<rt, procVars, busVars, routeVars, lifeVars, sessVars, monVars>>

SmoothToggle ==
    /\ eq' = Toggle(eq)
    /\ eqCall' = Call("toggle", 0, 0, "None")
    /\ UNCHANGED <<lastSet, ticksSince, rt, procVars, busVars, routeVars, lifeVars, sessVars, monVars>>

SmoothTick ==
    \E data \in {b \in Buffers : b.shape = <<1>>} :
        /\ EqProcessCall(data)
        /\ ticksSince' = IF eq.enabled /\ lastSet # NoSet
                         THEN Min(ticksSince + 1, NeededTicks) ELSE ticksSince
        /\ UNCHANGED <<lastSet, rt, procVars, busVars, routeVars, lifeVars, sessVars, monVars>>

NextSmooth ==
    \/ SmoothSetGain
    \/ SmoothSetBands
    \/ SmoothToggle
    \/ SmoothTick

SpecSmooth == InitEq /\ [][NextSmooth]_vars

(***************************************************************************)
(* SpecResize: gains are set, then set_bands(m) and set_bands(n) are       *)
(* called back to back, n being the band count before the first call.      *)
(***************************************************************************)
ResizeSetGain ==
    /\ rt.pc = "setup"
    /\ \E band \in 0..(eq.bands - 1), gain_db \in GainValues :
          EqSetGainCall(band, gain_db)
    /\ UNCHANGED <<lastSet, ticksSince, rt, procVars, busVars, routeVars, lifeVars, sessVars, monVars>>

ResizeFirst ==
    /\ rt.pc = "setup"
    /\ \E m \in 0..MaxBands :
          /\ EqSetBandsCall(m)
          /\ rt' = [pc |-> "resized", n |-> eq.bands, m |-> m,
                    gains |-> eq.gains, frequencies |-> eq.frequencies]
    /\ UNCHANGED <<lastSet, ticksSince, procVars, busVars, routeVars, lifeVars, sessVars, monVars>>

ResizeSecond ==
    /\ rt.pc = "resized"
    /\ EqSetBandsCall(rt.n)
    /\ rt' = [rt EXCEPT !.pc = "restored"]
    /\ UNCHANGED <<lastSet, ticksSince, procVars, busVars, routeVars, lifeVars, sessVars, monVars>>

ResizeAgain ==
    /\ rt.pc = "restored"
    /\ rt' = NoRoundTrip
    /\ UNCHANGED <<eq, eqCall, lastSet, ticksSince, procVars, busVars, routeVars, lifeVars, sessVars, monVars>>

NextResize ==
    \/ ResizeSetGain
    \/ ResizeFirst
    \/ ResizeSecond
    \/ ResizeAgain

SpecResize == InitEq /\ [][NextResize]_vars

(***************************************************************************)
(* SpecProc: one processor object of any variant, constructed and then     *)
(* driven through enable/disable, its setters and direct process() calls   *)
(* on arrays of every shape in Buffers.                                    *)
(***************************************************************************)
BassSetGain(p, gain_db) ==
    [p EXCEPT !.gain_db = gain_db, !.ba = BassFilter(p.sample_rate, p.cutoff, gain_db)]

ProcEnable ==
    /\ proc' = Enable(proc)
    /\ procCall' = Call("enable", 0, 0, "None")
    /\ UNCHANGED <<eqVars, busVars, routeVars, lifeVars, sessVars, monVars>>

ProcDisable ==
    /\ proc' = Disable(proc)
    /\ procCall' = Call("disable", 0, 0, "None")
    /\ UNCHANGED <<eqVars, busVars, routeVars, lifeVars, sessVars, monVars>>

ProcToggle ==
    /\ proc' = Toggle(proc)
    /\ procCall' = Call("toggle", 0, 0, "None")
    /\ UNCHANGED <<eqVars, busVars, routeVars, lifeVars, sessVars, monVars>>

ProcSetWidth ==
    /\ proc.kind = "SpatialEnhancer"
    /\ \E width \in Fractions \cup {<<3, 2>>} :
          /\ proc' = SetWidth(proc, width)
          /\ procCall' = Call("set_width", width[1], width[2], "None")
    /\ UNCHANGED <<eqVars, busVars, routeVars, lifeVars, sessVars, monVars>>

ProcSetThreshold ==
    /\ proc.kind = "NoiseReducer"
    /\ \E threshold \in Fractions :
          /\ proc' = SetThreshold(proc, threshold)
          /\ procCall' = Call("set_threshold", threshold[1], threshold[2], "None")
    /\ UNCHANGED <<eqVars, busVars, routeVars, lifeVars, sessVars, monVars>>

ProcSetGain ==
    /\ proc.kind = "Equalizer"
    /\ \E band \in 0..(proc.bands - 1), gain_db \in GainValues :
          /\ proc' = SetGain(proc, band, gain_db).eq
          /\ procCall' = Call("set_gain", band, gain_db, "None")
    /\ UNCHANGED <<eqVars, busVars, routeVars, lifeVars, sessVars, monVars>>

ProcBassSetGain ==
    /\ proc.kind = "BassBoost"
    /\ \E gain_db \in {3, 6} :
          /\ proc' = BassSetGain(proc, gain_db)
          /\ procCall' = Call("set_gain", 0, gain_db, "None")
    /\ UNCHANGED <<eqVars, busVars, routeVars, lifeVars, sessVars, monVars>>

ProcProcess ==
    \E data \in Buffers :
        LET r == Process(proc, data)
        IN  /\ proc' = proc
            /\ procCall' = ProcessCall(data, r)
            /\ UNCHANGED <<eqVars, busVars, routeVars, lifeVars, sessVars, monVars>>

InitProc ==
    /\ proc \in {NewEqualizer(n) : n \in 1..MaxBands}
                \cup {NewBassBoost(200, 6)}
                \cup {NewSpatialEnhancer(w) : w \in Fractions}
                \cup {NewNoiseReducer(t) : t \in Fractions \cup {<<1, 10>>}}
    /\ procCall = NoCall
    /\ EqIdle /\ BusIdle /\ RouteIdle /\ LifeIdle /\ SessIdle /\ MonIdle

NextProc ==
    \/ ProcEnable
    \/ ProcDisable
    \/ ProcToggle
    \/ ProcSetWidth
    \/ ProcSetThreshold
    \/ ProcSetGain
    \/ ProcBassSetGain
    \/ ProcProcess

SpecProc == InitProc /\ [][NextProc]_vars

(***************************************************************************)
(* SpecBus: one VirtualAudioDevice.  The control thread starts and stops   *)
(* it and mutates its chain; the audio thread runs the stream callback,    *)
(* one list-iterator step at a time (list.append, list.remove and the      *)
(* rebinding in clear_processors are atomic under the interpreter lock,    *)
(* and a thread switch can fall between two iterations of the loop).       *)
(*                                                                         *)
(* Audio data is symbolic: the content of processed_data is the sequence   *)
(* of stages whose output it holds, outdata is written when cbPc becomes   *)
(* "done".  Whether a stage's process() throws is the environment's        *)
(* choice at each call.                                                    *)
(***************************************************************************)
Procs == 1..NumProcs

KindOf(p) ==
    CASE p % 4 = 1 -> "Equalizer"
      [] p % 4 = 2 -> "BassBoost"
      [] p % 4 = 3 -> "SpatialEnhancer"
      [] OTHER -> "NoiseReducer"

Range(seq) == {seq[i] : i \in 1..Len(seq)}

\* list.remove(x): drops the first occurrence
RECURSIVE RemoveFirst(_, _)
RemoveFirst(seq, x) ==
    IF seq = <<>> THEN <<>>
    ELSE IF Head(seq) = x THEN Tail(seq)
    ELSE <<Head(seq)>> \o RemoveFirst(Tail(seq), x)

\* the list object the callback's iterator walks
IterList == IF cbLive THEN chain ELSE cbOld

Visited(t) == [i \in 1..Len(t) |-> t[i].proc]

\* a chain mutation seen from a tick in progress
Observe(newChain) == IF cbPc = "iter" THEN snaps \cup {newChain} ELSE snaps

MayMutate == cbPc # "iter" \/ Cardinality(snaps) <= MaxMutations

\* VirtualAudioDevice.add_processor
BusAddProcessor ==
    /\ MayMutate
    /\ Len(chain) < MaxChain
    /\ \E p \in Procs :
          /\ chain' = Append(chain, p)
          /\ configured' = configured \cup {p}
          /\ snaps' = Observe(Append(chain, p))
    /\ UNCHANGED <<stream, is_active, cbPc, cbIdx, cbLive, cbOld, trace>>
    /\ UNCHANGED <<eqVars, procVars, routeVars, lifeVars, sessVars, monVars>>

\* VirtualAudioDevice.remove_processor
BusRemoveProcessor ==
    /\ MayMutate
    /\ \E p \in Procs :
          /\ chain' = IF p \in Range(chain) THEN RemoveFirst(chain, p) ELSE chain
          /\ snaps' = Observe(chain')
    /\ UNCHANGED <<configured, stream, is_active, cbPc, cbIdx, cbLive, cbOld, trace>>
    /\ UNCHANGED <<eqVars, procVars, routeVars, lifeVars, sessVars, monVars>>

\* VirtualAudioDevice.clear_processors: binds a new empty list
BusClearProcessors ==
    /\ MayMutate
    /\ chain' = <<>>
    /\ snaps' = Observe(<<>>)
    /\ IF cbPc = "iter" /\ cbLive
       THEN cbLive' = FALSE /\ cbOld' = chain
       ELSE UNCHANGED <<cbLive, cbOld>>
    /\ UNCHANGED <<configured, stream, is_active, cbPc, cbIdx, trace>>
    /\ UNCHANGED <<eqVars, procVars, routeVars, lifeVars, sessVars, monVars>>

\* VirtualAudioDevice.start: sd.Stream(...) or stream.start() may raise
BusStart ==
    /\ ~is_active
    /\ configured' = configured \cup Range(chain)
    /\ \E outcome \in {"ok", "open_fails", "start_fails"} :
          CASE outcome = "ok" ->
                 stream' = "started" /\ is_active' = TRUE /\ cbPc' = "idle"
            [] outcome = "open_fails" ->
                 UNCHANGED <<stream, is_active, cbPc>>
            [] outcome = "start_fails" ->
                 stream' = "created" /\ UNCHANGED <<is_active, cbPc>>
    /\ UNCHANGED <<chain, cbIdx, cbLive, cbOld, trace, snaps>>
    /\ UNCHANGED <<eqVars, procVars, routeVars, lifeVars, sessVars, monVars>>

\* VirtualAudioDevice.stop: stream.stop() returns once the callback has;
\* a callback that raised has ended the stream's callbacks already
BusStop ==
    /\ is_active
    /\ cbPc # "iter"
    /\ stream' = "None"
    /\ is_active' = FALSE
    /\ cbPc' = "idle" /\ cbIdx' = 0 /\ cbLive' = TRUE /\ cbOld' = <<>>
    /\ trace' = <<>> /\ snaps' = {}
    /\ UNCHANGED <<chain, configured>>
    /\ UNCHANGED <<eqVars, procVars, routeVars, lifeVars, sessVars, monVars>>

\* callback entry: copy indata, processed_data = buffer copy, iter(chain)
CbBegin ==
    /\ stream = "started"
    /\ cbPc = "idle"
    /\ cbPc' = "iter"
    /\ cbIdx' = 0
    /\ cbLive' = TRUE
    /\ cbOld' = <<>>
    /\ trace' = <<>>
    /\ snaps' = {chain}
    /\ UNCHANGED <<chain, configured, stream, is_active>>
    /\ UNCHANGED <<eqVars, procVars, routeVars, lifeVars, sessVars, monVars>>

\* what one processor.process(processed_data) call does to the tick:
\* Equalizer.process catches what its implementation throws and returns
\* data; AudioProcessor.process, which the other variants inherit, does not
StageOutcome(p, throws) ==
    IF ~throws THEN "applied"
    ELSE IF KindOf(p) = "Equalizer" THEN "bypassed" ELSE "threw"

\* one iteration of: for processor in self.processing_chain
CbStep ==
    /\ cbPc = "iter"
    /\ cbIdx < Len(IterList)
    /\ \E throws \in BOOLEAN :
          LET p == IterList[cbIdx + 1]
              o == StageOutcome(p, throws)
          IN  /\ trace' = Append(trace, [proc |-> p, outcome |-> o])
              /\ cbPc' = IF o = "threw" THEN "raised" ELSE "iter"
    /\ cbIdx' = cbIdx + 1
    /\ UNCHANGED <<chain, configured, stream, is_active, cbLive, cbOld, snaps>>
    /\ UNCHANGED <<eqVars, procVars, routeVars, lifeVars, sessVars, monVars>>

\* the iterator is exhausted: outdata[:frames] = processed_data
CbFinish ==
    /\ cbPc = "iter"
    /\ cbIdx >= Len(IterList)
    /\ cbPc' = "done"
    /\ UNCHANGED <<chain, configured, stream, is_active, cbIdx, cbLive, cbOld,
                   trace, snaps>>
    /\ UNCHANGED <<eqVars, procVars, routeVars, lifeVars, sessVars, monVars>>

\* the callback returns: its locals (iterator, processed_data) are gone
CbReturn ==
    /\ cbPc = "done"
    /\ cbPc' = "idle" /\ cbIdx' = 0 /\ cbLive' = TRUE /\ cbOld' = <<>>
    /\ trace' = <<>> /\ snaps' = {}
    /\ UNCHANGED <<chain, configured, stream, is_active>>
    /\ UNCHANGED <<eqVars, procVars, routeVars, lifeVars, sessVars, monVars>>

InitBus == BusIdle /\ EqIdle /\ ProcIdle /\ RouteIdle /\ LifeIdle /\ SessIdle /\ MonIdle

NextBus ==
    \/ BusAddProcessor
    \/ BusRemoveProcessor
    \/ BusClearProcessors
    \/ BusStart
    \/ BusStop
    \/ CbBegin
    \/ CbStep
    \/ CbFinish
    \/ CbReturn

SpecBus == InitBus /\ [][NextBus]_vars

(***************************************************************************)
(* SpecRoute: the AudioRoutingSystem with its AudioDeviceManager and       *)
(* VirtualAudioRouter, driven through its commands; refresh_devices        *)
(* re-enumerates whatever hardware is present at that moment.              *)
(***************************************************************************)
DictSet(d, k, v) == [x \in DOMAIN d \cup {k} |-> IF x = k THEN v ELSE d[x]]

DictDel(d, k) == [x \in DOMAIN d \ {k} |-> d[x]]

\* a set_device_for_audio_type that assigns the device it found before it
\* checks the direction
SetDeviceAssignFirst(devs, active, audio_type, device_index) ==
    LET device == FindDevice(devs, device_index)
    IN  IF audio_type \notin Range(AudioTypes) \/ device = NoDevice
        THEN [raised |-> "ValueError", active_devices |-> active]
        ELSE [raised |-> IF (audio_type = "microphone") = (device.type = "input")
                         THEN "None" ELSE "ValueError",
              active_devices |-> DictSet(active, audio_type, device)]

\* AudioDeviceManager.set_device_for_audio_type
SetDeviceForAudioType(devs, active, audio_type, device_index) ==
    LET device == FindDevice(devs, device_index)
    IN  IF audio_type \notin Range(AudioTypes)
           \/ device = NoDevice
           \/ (audio_type = "microphone" /\ device.type # "input")
           \/ (audio_type # "microphone" /\ device.type # "output")
        THEN [raised |-> "ValueError", active_devices |-> active]
        ELSE [raised |-> "None",
              active_devices |-> DictSet(active, audio_type, device)]

\* the loop over ['game', 'others', 'system', 'chat'] in
\* set_unified_device_mode; the first raise ends it
RECURSIVE SetDeviceForEach(_, _, _, _)
SetDeviceForEach(devs, active, types, device_index) ==
    IF types = <<>> THEN [raised |-> "None", active_devices |-> active]
    ELSE LET r == SetDeviceForAudioType(devs, active, Head(types), device_index)
         IN  IF r.raised # "None" THEN r
             ELSE SetDeviceForEach(devs, r.active_devices, Tail(types), device_index)

\* AudioRoutingSystem.set_unified_device_mode
SetUnifiedDeviceModeCall(enabled, output_device_id, input_device_id) ==
        /\ unified_device_mode' = enabled
        /\ IF enabled
           THEN LET o == IF Truthy(output_device_id)
                         THEN SetDeviceForEach(devices, active_devices, OutputTypes,
                                               output_device_id)
                         ELSE [raised |-> "None", active_devices |-> active_devices]
                    i == IF o.raised = "None" /\ Truthy(input_device_id)
                         THEN SetDeviceForAudioType(devices, o.active_devices,
                                                    "microphone", input_device_id)
                         ELSE o
                IN  /\ unified_output_device' = output_device_id
                    /\ unified_input_device' = input_device_id
                    /\ active_devices' = i.active_devices
                    /\ routeCall' = [NoRouteCall EXCEPT
                                        !.op = "set_unified_device_mode",
                                        !.raised = i.raised]
           ELSE /\ UNCHANGED <<unified_output_device, unified_input_device,
                               active_devices>>
                /\ routeCall' = [NoRouteCall EXCEPT !.op = "set_unified_device_mode"]
        /\ UNCHANGED <<devices, routes, virtual_devices, routing_table>>
        /\ UNCHANGED <<eqVars, procVars, busVars, lifeVars, sessVars, monVars>>

\* create_route, lines 57-62: the device id the route is made with
EffectiveDevice(audio_type, physical_device_id) ==
    IF unified_device_mode
    THEN IF audio_type = "microphone" /\ Truthy(unified_input_device)
         THEN unified_input_device
         ELSE IF audio_type # "microphone" /\ Truthy(unified_output_device)
         THEN unified_output_device
         ELSE physical_device_id
    ELSE physical_device_id

BusNames(vds) == {vds[i].name : i \in 1..Len(vds)}

\* VirtualAudioDevice.__init__
NewVirtualDevice(name) ==
    [name |-> name, is_active |-> FALSE, stream |-> "None",
     processing_chain |-> <<>>]

RouteCategories == {"game", "chat", "microphone"}

RouteBuses == {"bus_a", "bus_b"}

\* a create_route that makes a new bus of that name every time
ReplaceVirtualDevice(vds, name) ==
    LET NotIt(vd) == vd.name # name
    IN  Append(SelectSeq(vds, NotIt), NewVirtualDevice(name))

\* create_route, lines 68-69: create the bus unless the router has it
EnsureVirtualDevice(vds, name) ==
    IF name \in BusNames(vds) THEN vds ELSE Append(vds, NewVirtualDevice(name))

\* AudioRoutingSystem.create_route
CreateRouteCall(audio_type, physical_device_id, virtual_device_name) ==
        LET id == EffectiveDevice(audio_type, physical_device_id)
            r == SetDeviceForAudioType(devices, active_devices, audio_type, id)
        IN  IF r.raised # "None"
            THEN /\ routeCall' = [NoRouteCall EXCEPT
                                     !.op = "create_route", !.audio_type = audio_type,
                                     !.raised = r.raised]
                 /\ active_devices' = r.active_devices
                 /\ UNCHANGED <<devices, routes, unified_device_mode,
                                unified_output_device, unified_input_device,
                                virtual_devices, routing_table>>
                 /\ UNCHANGED <<eqVars, procVars, busVars, lifeVars, monVars>>
            ELSE /\ active_devices' = r.active_devices
                 /\ virtual_devices' =
                       EnsureVirtualDevice(virtual_devices, virtual_device_name)
                 /\ routes' = DictSet(routes, audio_type,
                                      [device |-> id, bus |-> virtual_device_name])
                 /\ routeCall' = [NoRouteCall EXCEPT
                                     !.op = "create_route", !.audio_type = audio_type,
                                     !.bus = virtual_device_name, !.ret = "True"]
                 /\ UNCHANGED <<devices, unified_device_mode, unified_output_device,
                                unified_input_device, routing_table>>
                 /\ UNCHANGED <<eqVars, procVars, busVars, lifeVars, monVars>>

\* AudioRoutingSystem.remove_route
RemoveRoute ==
    \E audio_type \in RouteCategories :
        /\ routes' = IF audio_type \in DOMAIN routes
                     THEN DictDel(routes, audio_type) ELSE routes
        /\ routeCall' = [NoRouteCall EXCEPT
                            !.op = "remove_route", !.audio_type = audio_type,
                            !.ret = IF audio_type \in DOMAIN routes
                                    THEN "True" ELSE "False"]
        /\ UNCHANGED <<devices, active_devices, unified_device_mode,
                       unified_output_device, unified_input_device,
                       virtual_devices, routing_table>>
        /\ UNCHANGED <<eqVars, procVars, busVars, lifeVars, sessVars, monVars>>

\* AudioDeviceManager.refresh_devices (through AudioRoutingSystem)
RefreshDevices ==
    \E hw \in Hardware :
        LET devs == EnumerateDevices(hw)
            device_indices == {devs[k].index : k \in 1..Len(devs)}
            kept == {t \in DOMAIN active_devices :
                        active_devices[t].index \in device_indices}
        IN  /\ devices' = devs
            /\ active_devices' = [t \in kept |-> active_devices[t]]
            /\ routeCall' = [NoRouteCall EXCEPT !.op = "refresh_devices"]
            /\ UNCHANGED <<routes, unified_device_mode, unified_output_device,
                           unified_input_device, virtual_devices, routing_table>>
            /\ UNCHANGED <<eqVars, procVars, busVars, lifeVars, sessVars, monVars>>

\* VirtualAudioDevice.stop on a bus of the router
StoppedDevice(vd) ==
    IF ~vd.is_active THEN vd ELSE [vd EXCEPT !.stream = "None", !.is_active = FALSE]

\* VirtualAudioRouter.remove_virtual_device
RemoveVirtualDevice ==
    \E name \in RouteBuses :
        IF name \notin BusNames(virtual_devices)
        THEN /\ routeCall' = [NoRouteCall EXCEPT
                                 !.op = "remove_virtual_device", !.bus = name,
                                 !.ret = "False"]
             /\ UNCHANGED <<devices, active_devices, routes, unified_device_mode,
                            unified_output_device, unified_input_device,
                            virtual_devices, routing_table>>
             /\ UNCHANGED <<eqVars, procVars, busVars, lifeVars, sessVars, monVars>>
        ELSE LET NotIt(vd) == vd.name # name
                 gone == {src \in DOMAIN routing_table :
                             src = name \/ routing_table[src] = name}
             IN  /\ virtual_devices' = SelectSeq(virtual_devices, NotIt)
                 /\ routing_table' =
                       [src \in DOMAIN routing_table \ gone |-> routing_table[src]]
                 /\ routeCall' = [NoRouteCall EXCEPT
                                     !.op = "remove_virtual_device", !.bus = name,
                                     !.ret = "True", !.stops = 1]
                 /\ UNCHANGED <<devices, active_devices, routes, unified_device_mode,
                                unified_output_device, unified_input_device>>
                 /\ UNCHANGED <<eqVars, procVars, busVars, lifeVars, sessVars, monVars>>

\* AudioDeviceManager.__init__ enumerates the hardware present
InitRoute ==
    /\ devices \in {EnumerateDevices(hw) : hw \in Hardware}
    /\ active_devices = [t \in {} |-> NoDevice]
    /\ routes = [t \in {} |-> NoRoute]
    /\ unified_device_mode = FALSE
    /\ unified_output_device = NoId
    /\ unified_input_device = NoId
    /\ virtual_devices = <<>>
    /\ routing_table = [b \in {} |-> "None"]
    /\ routeCall = NoRouteCall
    /\ EqIdle /\ ProcIdle /\ BusIdle /\ LifeIdle /\ SessIdle /\ MonIdle

CreateRoute ==
    \E audio_type \in RouteCategories, physical_device_id \in 0..2,
       virtual_device_name \in RouteBuses :
        /\ CreateRouteCall(audio_type, physical_device_id, virtual_device_name)
        /\ UNCHANGED <<sessVars, monVars>>

RouteSetUnifiedDeviceMode ==
    \E output_device_id \in {1} :
        SetUnifiedDeviceModeCall(TRUE, output_device_id, NoId)

NextRoute ==
    \/ CreateRoute
    \/ RouteSetUnifiedDeviceMode
    \/ RemoveRoute
    \/ RefreshDevices
    \/ RemoveVirtualDevice

SpecRoute == InitRoute /\ [][NextRoute]_vars

(***************************************************************************)
(* SpecUnified: routes made and removed while unified device mode is       *)
(* switched and its devices changed, over one enumeration.                 *)
(***************************************************************************)
UniSetUnifiedDeviceMode ==
    \E enabled \in BOOLEAN, output_device_id \in {NoId, 0, 1},
       input_device_id \in {NoId, 2} :
        SetUnifiedDeviceModeCall(enabled, output_device_id, input_device_id)

UniCreateRoute ==
    \E audio_type \in RouteCategories, physical_device_id \in 0..2 :
        /\ CreateRouteCall(audio_type, physical_device_id, "bus_a")
        /\ UNCHANGED <<sessVars, monVars>>

NextUnified ==
    \/ UniSetUnifiedDeviceMode
    \/ UniCreateRoute
    \/ RemoveRoute

SpecUnified == InitRoute /\ [][NextUnified]_vars

(***************************************************************************)
(* SpecLife: the buses of a VirtualAudioRouter, created, started, stopped  *)
(* and removed one at a time or all together.  sd.Stream(...) and          *)
(* stream.start() may raise (the library's PortAudioError); the library's  *)
(* stop() and close() ignore errors by default and do not raise.           *)
(***************************************************************************)
StreamOutcomes == {"ok", "open_fails", "start_fails"}

\* the bus of that name in VirtualAudioRouter.virtual_devices
BusNamed(vds, name) ==
    LET i == CHOOSE k \in 1..Len(vds) : vds[k].name = name IN vds[i]

ReplaceBus(vds, vd) ==
    [k \in 1..Len(vds) |-> IF vds[k].name = vd.name THEN vd ELSE vds[k]]

\* a start() that marks the bus active before the stream has started
StartDeviceActiveFirst(vd, outcome) ==
    IF vd.is_active
    THEN [vd |-> vd, outcome |-> "None", raised |-> "None", opened |-> 0]
    ELSE CASE outcome = "ok" ->
                [vd |-> [vd EXCEPT !.stream = "started", !.is_active = TRUE],
                 outcome |-> outcome, raised |-> "None", opened |-> 1]
           [] outcome = "open_fails" ->
                [vd |-> [vd EXCEPT !.is_active = TRUE], outcome |-> outcome,
                 raised |-> "PortAudioError", opened |-> 0]
           [] outcome = "start_fails" ->
                [vd |-> [vd EXCEPT !.stream = "created", !.is_active = TRUE],
                 outcome |-> outcome, raised |-> "PortAudioError", opened |-> 1]

\* a start() without the is_active test
StartDeviceAlways(vd, outcome) ==
    CASE outcome = "ok" ->
           [vd |-> [vd EXCEPT !.stream = "started", !.is_active = TRUE],
            outcome |-> outcome, raised |-> "None", opened |-> 1]
      [] outcome = "open_fails" ->
           [vd |-> vd, outcome |-> outcome, raised |-> "PortAudioError",
            opened |-> 0]
      [] outcome = "start_fails" ->
           [vd |-> [vd EXCEPT !.stream = "created"], outcome |-> outcome,
            raised |-> "PortAudioError", opened |-> 1]

\* VirtualAudioDevice.start: the assignment to self.stream happens once
\* sd.Stream(...) has returned, self.is_active = True once stream.start() has
StartDevice(vd, outcome) ==
    IF vd.is_active
    THEN [vd |-> vd, outcome |-> "None", raised |-> "None", opened |-> 0]
    ELSE CASE outcome = "ok" ->
                [vd |-> [vd EXCEPT !.stream = "started", !.is_active = TRUE],
                 outcome |-> outcome, raised |-> "None", opened |-> 1]
           [] outcome = "open_fails" ->
                [vd |-> vd, outcome |-> outcome, raised |-> "PortAudioError",
                 opened |-> 0]
           [] outcome = "start_fails" ->
                [vd |-> [vd EXCEPT !.stream = "created"], outcome |-> outcome,
                 raised |-> "PortAudioError", opened |-> 1]

\* streams VirtualAudioDevice.stop closes
ClosedBy(vd) == IF vd.is_active /\ vd.stream # "None" THEN 1 ELSE 0

\* VirtualAudioRouter.start_all_devices from the k-th bus on: the first
\* start() that raises ends the loop
RECURSIVE StartAllFrom(_, _, _)
StartAllFrom(vds, k, outcomes) ==
    IF k > Len(vds) THEN [vds |-> vds, raised |-> "None", failed |-> FALSE]
    ELSE LET r == StartDevice(vds[k], outcomes[k])
             now == ReplaceBus(vds, r.vd)
         IN  IF r.raised # "None"
             THEN [vds |-> now, raised |-> r.raised, failed |-> TRUE]
             ELSE StartAllFrom(now, k + 1, outcomes)

LifeUnchanged ==
    /\ UNCHANGED <<devices, active_devices, routes, unified_device_mode,
                   unified_output_device, unified_input_device, routing_table,
                   routeCall>>
    /\ UNCHANGED <<eqVars, procVars, busVars, tickVars, sessVars, monVars>>

\* VirtualAudioRouter.create_virtual_device
LifeCreate ==
    \E name \in RouteBuses :
        /\ IF name \in BusNames(virtual_devices)
           THEN /\ UNCHANGED virtual_devices
                /\ busCall' = [NoBusCall EXCEPT !.op = "create_virtual_device",
                                                !.bus = name,
                                                !.raised = "ValueError"]
           ELSE /\ virtual_devices' = Append(virtual_devices, NewVirtualDevice(name))
                /\ busCall' = [NoBusCall EXCEPT !.op = "create_virtual_device",
                                                !.bus = name]
        /\ LifeUnchanged

\* VirtualAudioDevice.start on a bus of the router
LifeStart ==
    \E name \in BusNames(virtual_devices), outcome \in StreamOutcomes :
        LET r == StartDevice(BusNamed(virtual_devices, name), outcome)
        IN  /\ virtual_devices' = ReplaceBus(virtual_devices, r.vd)
            /\ busCall' = [op |-> "start", bus |-> name, outcome |-> r.outcome,
                           raised |-> r.raised, opened |-> r.opened, closed |-> 0,
                           stream |-> r.vd.stream, is_active |-> r.vd.is_active]
            /\ LifeUnchanged

\* VirtualAudioDevice.stop on a bus of the router
LifeStop ==
    \E name \in BusNames(virtual_devices) :
        LET vd == BusNamed(virtual_devices, name)
            after == StoppedDevice(vd)
        IN  /\ virtual_devices' = ReplaceBus(virtual_devices, after)
            /\ busCall' = [op |-> "stop", bus |-> name, outcome |-> "None",
                           raised |-> "None", opened |-> 0, closed |-> ClosedBy(vd),
                           stream |-> after.stream, is_active |-> after.is_active]
            /\ LifeUnchanged

\* VirtualAudioRouter.remove_virtual_device: stop(), then the bus leaves the
\* router and its __del__ calls stop() once more
LifeRemove ==
    \E name \in BusNames(virtual_devices) :
        LET vd == BusNamed(virtual_devices, name)
            stopped == StoppedDevice(vd)
            after == StoppedDevice(stopped)
            NotIt(d) == d.name # name
        IN  /\ virtual_devices' = SelectSeq(virtual_devices, NotIt)
            /\ busCall' = [op |-> "__del__", bus |-> name, outcome |-> "None",
                           raised |-> "None", opened |-> 0,
                           closed |-> ClosedBy(vd) + ClosedBy(stopped),
                           stream |-> after.stream, is_active |-> after.is_active]
            /\ LifeUnchanged

\* VirtualAudioRouter.start_all_devices (AudioRoutingSystem.start_routing)
LifeStartAll ==
    \E outcomes \in [1..Len(virtual_devices) -> StreamOutcomes] :
        LET r == StartAllFrom(virtual_devices, 1, outcomes)
        IN  /\ virtual_devices' = r.vds
            /\ busCall' = [NoBusCall EXCEPT !.op = "start_all_devices",
                                            !.raised = r.raised,
                                            !.outcome = IF r.failed THEN "fails"
                                                        ELSE "ok"]
            /\ LifeUnchanged

\* VirtualAudioRouter.stop_all_devices (AudioRoutingSystem.stop_routing)
LifeStopAll ==
    /\ virtual_devices' = [k \in 1..Len(virtual_devices) |->
                              StoppedDevice(virtual_devices[k])]
    /\ busCall' = [NoBusCall EXCEPT !.op = "stop_all_devices"]
    /\ LifeUnchanged

InitLife == EqIdle /\ ProcIdle /\ BusIdle /\ RouteIdle /\ LifeIdle /\ SessIdle /\ MonIdle

NextLife ==
    \/ LifeCreate
    \/ LifeStart
    \/ LifeStop
    \/ LifeRemove
    \/ LifeStartAll
    \/ LifeStopAll

SpecLife == InitLife /\ [][NextLife]_vars

(***************************************************************************)
(* SpecStop: one bus whose control thread starts and stops it while the    *)
(* audio thread runs the callback.  start() and stop() take two steps      *)
(* each: the library call (stream.start(), stream.stop()) and the          *)
(* assignments after it.  The library's stream.stop() returns once the     *)
(* callback in progress has returned, and calls the callback no more.      *)
(***************************************************************************)
InFlight == {"iter", "done"}

Pending(op) == busCall.op = op /\ busCall.outcome = "pending"

ControlIdle == busCall.outcome # "pending"

\* a stream.stop() that returns while the callback is still running
StreamStopNoWait == TRUE

\* stream.stop() in VirtualAudioDevice.stop has returned
StreamStopReturns == cbPc \notin InFlight

StopAddProcessor == ControlIdle /\ BusAddProcessor

\* start(): format the processors, sd.Stream(...) with a new callback,
\* self.stream.start()
StopStartCall ==
    /\ ControlIdle
    /\ ~is_active
    /\ configured' = configured \cup Range(chain)
    /\ stream' = "started"
    /\ busCall' = [NoBusCall EXCEPT !.op = "start", !.outcome = "pending",
                                    !.opened = 1, !.stream = "started"]
    /\ cbPc' = "idle" /\ cbIdx' = 0 /\ cbLive' = TRUE /\ cbOld' = <<>>
    /\ trace' = <<>> /\ snaps' = {}
    /\ UNCHANGED <<chain, is_active>>
    /\ UNCHANGED <<eqVars, procVars, routeVars, tickVars, sessVars, monVars>>

\* start(): self.is_active = True
StopStartReturn ==
    /\ Pending("start")
    /\ is_active' = TRUE
    /\ busCall' = [busCall EXCEPT !.outcome = "ok", !.is_active = TRUE]
    /\ UNCHANGED <<chain, configured, stream, cbPc, cbIdx, cbLive, cbOld, trace,
                   snaps>>
    /\ UNCHANGED <<eqVars, procVars, routeVars, tickVars, sessVars, monVars>>

\* stop(): is_active and self.stream hold, self.stream.stop() is called
StopCall ==
    /\ ControlIdle
    /\ is_active
    /\ stream = "started"
    /\ stream' = "stopping"
    /\ busCall' = [NoBusCall EXCEPT !.op = "stop", !.outcome = "pending",
                                    !.stream = "stopping", !.is_active = TRUE]
    /\ UNCHANGED <<chain, configured, is_active, cbPc, cbIdx, cbLive, cbOld,
                   trace, snaps>>
    /\ UNCHANGED <<eqVars, procVars, routeVars, tickVars, sessVars, monVars>>

\* stop(): stream.stop() has returned; close(), self.stream = None,
\* self.is_active = False
StopReturn ==
    /\ Pending("stop")
    /\ StreamStopReturns
    /\ stream' = "None"
    /\ is_active' = FALSE
    /\ busCall' = [NoBusCall EXCEPT !.op = "stop", !.outcome = "ok", !.closed = 1]
    /\ UNCHANGED <<chain, configured, cbPc, cbIdx, cbLive, cbOld, trace, snaps>>
    /\ UNCHANGED <<eqVars, procVars, routeVars, tickVars, sessVars, monVars>>

InitStop == InitLife

NextStop ==
    \/ StopAddProcessor
    \/ StopStartCall
    \/ StopStartReturn
    \/ StopCall
    \/ StopReturn
    \/ CbBegin
    \/ CbStep
    \/ CbFinish
    \/ CbReturn

SpecStop == InitStop /\ [][NextStop]_vars

(***************************************************************************)
(* Sessions and categories: the commands of AudioRoutingSystem that take a *)
(* category or a session, over the audio sessions the operating system     *)
(* reports.  A session is [pid, name, volume]; pid is -1 for a session     *)
(* without a process.  Each command that asks the operating system may     *)
(* find it failing.                                                        *)
(***************************************************************************)
SessionCategoryNames == {"game", "others", "system", "chat"}

SessionNames == {"System Sounds", "Discord.exe", "game.exe"}

\* str.lower() on the names of the model
Lower(name) ==
    CASE name = "System Sounds" -> "system sounds"
      [] name = "Discord.exe" -> "discord.exe"
      [] name = "game.exe" -> "game.exe"
      [] OTHER -> name

\* "system" in lname
HasSystem(lname) == lname \in {"system sounds"}

\* any(x in lname for x in ["discord", "whatsapp", "telegram", "skype", "zoom"])
HasChatApp(lname) == lname \in {"discord.exe"}

\* MixerWidget._determine_category
DetermineCategory(name, pid) ==
    IF pid = -1 \/ HasSystem(Lower(name)) THEN "system"
    ELSE IF HasChatApp(Lower(name)) THEN "chat"
    ELSE "others"

\* sess.get("pid") or sess.get("process_id") or -1, in the widgets
WidgetPid(pid) == IF pid = 0 THEN -1 ELSE pid

\* AudioDeviceManager.get_active_audio_sessions
GetActiveAudioSessions(os) == IF os = "ok" THEN sessions ELSE <<>>

\* AudioDeviceManager.set_session_volume: the first session of that pid
SetSessionVolume(sess, pid, level, os) ==
    LET hits == {k \in 1..Len(sess) : sess[k].pid = pid}
    IN  IF os # "ok" \/ hits = {}
        THEN [ok |-> FALSE, sessions |-> sess]
        ELSE LET first == CHOOSE k \in hits : \A j \in hits : k <= j
             IN  [ok |-> TRUE,
                  sessions |-> [sess EXCEPT ![first].volume = level]]

\* the loop of set_category_volume over the listed sessions, from the k-th
RECURSIVE VolumeLoop(_, _, _, _, _, _, _)
VolumeLoop(listed, k, sess, changed, category, level, os) ==
    IF k > Len(listed) THEN [changed |-> changed, sessions |-> sess]
    ELSE LET pid == listed[k].pid
         IN  IF pid = 0
             THEN VolumeLoop(listed, k + 1, sess, changed, category, level, os)
             ELSE IF pid \in DOMAIN session_categories
                     /\ session_categories[pid] = category
             THEN LET r == SetSessionVolume(sess, pid, level, os)
                  IN  VolumeLoop(listed, k + 1, r.sessions, changed \/ r.ok,
                                 category, level, os)
             ELSE VolumeLoop(listed, k + 1, sess, changed, category, level, os)

\* AudioDeviceManager.set_device_volume
SetDeviceVolume(device_index, level, os) ==
    LET device == FindDevice(devices, device_index)
    IN  IF level < 0 \/ level > 100
        THEN [raised |-> "ValueError", ret |-> "None", sessions |-> sessions,
              device_volumes |-> device_volumes]
        ELSE IF device = NoDevice \/ os # "ok"
        THEN [raised |-> "None", ret |-> "False", sessions |-> sessions,
              device_volumes |-> device_volumes]
        ELSE [raised |-> "None", ret |-> "True",
              sessions |-> IF device.type = "output"
                           THEN [k \in 1..Len(sessions) |->
                                    [sessions[k] EXCEPT !.volume = level]]
                           ELSE sessions,
              device_volumes |-> DictSet(device_volumes, device_index, level)]

Bool(b) == IF b THEN "True" ELSE "False"

\* AudioRoutingSystem.set_category_volume
SetCategoryVolumeCall(category, level, os) ==
    /\ IF category = "microphone"
       THEN IF "microphone" \in DOMAIN active_devices
            THEN LET r == SetDeviceVolume(active_devices["microphone"].index,
                                          level, os)
                 IN  /\ sessions' = r.sessions
                     /\ device_volumes' = r.device_volumes
                     /\ sessCall' = [NoSessCall EXCEPT
                                       !.op = "set_category_volume",
                                       !.category = category, !.level = level,
                                       !.os = os,
                                       !.ret = IF r.raised # "None" THEN "False"
                                               ELSE r.ret]
            ELSE /\ UNCHANGED <<sessions, device_volumes>>
                 /\ sessCall' = [NoSessCall EXCEPT
                                   !.op = "set_category_volume",
                                   !.category = category, !.level = level,
                                   !.os = os, !.ret = "False"]
       ELSE LET r == VolumeLoop(GetActiveAudioSessions(os), 1, sessions, FALSE,
                                category, level, os)
            IN  /\ sessions' = r.sessions
                /\ UNCHANGED device_volumes
                /\ sessCall' = [NoSessCall EXCEPT
                                  !.op = "set_category_volume",
                                  !.category = category, !.level = level,
                                  !.os = os, !.ret = Bool(r.changed)]
    /\ UNCHANGED <<session_categories, session_routes, session_overrides>>
    /\ UNCHANGED <<eqVars, procVars, busVars, routeVars, lifeVars, monVars>>

\* AudioRoutingSystem.set_session_category with route_session_to_category
SetSessionCategory(cats, sroutes, pid, category) ==
    IF category \notin SessionCategoryNames
    THEN [ret |-> "False", session_categories |-> cats, session_routes |-> sroutes]
    ELSE IF category \in DOMAIN active_devices
    THEN [ret |-> "True", session_categories |-> DictSet(cats, pid, category),
          session_routes |->
              DictSet(sroutes, pid, active_devices[category].index)]
    ELSE [ret |-> "False", session_categories |-> DictSet(cats, pid, category),
          session_routes |-> sroutes]

SetSessionCategoryCall(pid, category) ==
    LET r == SetSessionCategory(session_categories, session_routes, pid, category)
    IN  /\ session_categories' = r.session_categories
        /\ session_routes' = r.session_routes
        /\ sessCall' = [NoSessCall EXCEPT !.op = "set_session_category",
                                          !.pid = pid, !.category = category,
                                          !.ret = r.ret]
        /\ UNCHANGED <<sessions, device_volumes, session_overrides>>
        /\ UNCHANGED <<eqVars, procVars, busVars, routeVars, lifeVars, monVars>>

\* AudioRoutingSystem.apply_audio_processing / remove_audio_processing
ProcessingCall(op, audio_type, processor) ==
    LET known == audio_type \in DOMAIN routes
        name == IF known THEN routes[audio_type].bus ELSE "None"
        found == name \in BusNames(virtual_devices)
        Changed(vd) ==
            IF vd.name # name THEN vd
            ELSE IF op = "apply_audio_processing"
            THEN [vd EXCEPT !.processing_chain = Append(@, processor)]
            ELSE [vd EXCEPT !.processing_chain =
                               IF processor \in Range(@)
                               THEN RemoveFirst(@, processor) ELSE @]
    IN  /\ virtual_devices' =
              IF known /\ found
              THEN [k \in 1..Len(virtual_devices) |-> Changed(virtual_devices[k])]
              ELSE virtual_devices
        /\ sessCall' = [NoSessCall EXCEPT !.op = op, !.category = audio_type,
                                          !.processor = processor,
                                          !.ret = Bool(known /\ found)]
        /\ UNCHANGED <<devices, active_devices, routes, unified_device_mode,
                       unified_output_device, unified_input_device,
                       routing_table, routeCall>>
        /\ UNCHANGED <<sessions, session_categories, session_routes,
                       device_volumes, session_overrides>>
        /\ UNCHANGED <<eqVars, procVars, busVars, lifeVars, monVars>>

(***************************************************************************)
(* SpecCategory: the commands that take a category, called with known and  *)
(* unknown category names, and create_route called with device ids that    *)
(* are or are not in the last enumeration.                                 *)
(***************************************************************************)
CategoryInputs == {"game", "microphone", "movie"}

CatSessions == <<[pid |-> 7, name |-> "game.exe", volume |-> 100]>>

\* create_route, with the call and its arguments logged in sessCall
CatCreateRoute ==
    \E audio_type \in CategoryInputs, physical_device_id \in 0..2 :
        /\ CreateRouteCall(audio_type, physical_device_id, "bus_a")
        /\ sessCall' = [NoSessCall EXCEPT !.op = "create_route",
                                          !.category = audio_type,
                                          !.device = physical_device_id,
                                          !.raised = routeCall'.raised,
                                          !.ret = routeCall'.ret]
        /\ UNCHANGED <<sessions, session_categories, session_routes,
                       device_volumes, session_overrides>>

CatApplyProcessing ==
    \E audio_type \in CategoryInputs :
        /\ \A k \in 1..Len(virtual_devices) :
              virtual_devices[k].processing_chain = <<>>
        /\ ProcessingCall("apply_audio_processing", audio_type, 1)

CatRemoveProcessing ==
    \E audio_type \in CategoryInputs :
        ProcessingCall("remove_audio_processing", audio_type, 1)

CatSetSessionCategory ==
    \E category \in CategoryInputs : SetSessionCategoryCall(7, category)

CatSetCategoryVolume ==
    \E category \in CategoryInputs, os \in {"ok", "fails"} :
        SetCategoryVolumeCall(category, 50, os)

InitCategory ==
    /\ devices \in {EnumerateDevices(hw) : hw \in Hardware}
    /\ active_devices = [t \in {} |-> NoDevice]
    /\ routes = [t \in {} |-> NoRoute]
    /\ unified_device_mode = FALSE
    /\ unified_output_device = NoId
    /\ unified_input_device = NoId
    /\ virtual_devices = <<>>
    /\ routing_table = [b \in {} |-> "None"]
    /\ routeCall = NoRouteCall
    /\ sessions = CatSessions
    /\ session_categories = [p \in {} |-> "None"]
    /\ session_routes = [p \in {} |-> NoId]
    /\ device_volumes = [d \in {} |-> 0]
    /\ session_overrides = [n \in {} |-> "None"]
    /\ sessCall = NoSessCall
    /\ EqIdle /\ ProcIdle /\ BusIdle /\ LifeIdle /\ MonIdle

NextCategory ==
    \/ CatCreateRoute
    \/ RefreshDevices
    \/ CatApplyProcessing
    \/ CatRemoveProcessing
    \/ CatSetSessionCategory
    \/ CatSetCategoryVolume

SpecCategory == InitCategory /\ [][NextCategory]_vars

(***************************************************************************)
(* SpecSess: sessions come and go, categories are assigned to them by      *)
(* explicit calls, by the mixer's refresh and by the settings panel, and   *)
(* category volumes are set.                                               *)
(***************************************************************************)
SessionPool ==
    [a |-> [pid |-> 7, name |-> "game.exe", volume |-> 100],
     b |-> [pid |-> 8, name |-> "Discord.exe", volume |-> 100],
     s |-> [pid |-> -1, name |-> "System Sounds", volume |-> 100]]

SessionLists ==
    {<<>>, <<SessionPool.a>>, <<SessionPool.a, SessionPool.b>>,
     <<SessionPool.s, SessionPool.a>>, <<SessionPool.a, SessionPool.a>>}

\* MixerWidget.refresh_sessions_ui that records the inferred category of
\* every listed session, assigned or not
RECURSIVE RefreshLoopOverwrite(_, _, _, _)
RefreshLoopOverwrite(listed, k, cats, sroutes) ==
    IF k > Len(listed)
    THEN [session_categories |-> cats, session_routes |-> sroutes]
    ELSE LET pid == WidgetPid(listed[k].pid)
             r == SetSessionCategory(cats, sroutes, pid,
                                     DetermineCategory(listed[k].name, pid))
         IN  RefreshLoopOverwrite(listed, k + 1, r.session_categories,
                                  r.session_routes)

\* the loop of MixerWidget.refresh_sessions_ui over the listed sessions,
\* from the k-th: the inferred category is recorded the first time only
RECURSIVE RefreshLoop(_, _, _, _)
RefreshLoop(listed, k, cats, sroutes) ==
    IF k > Len(listed)
    THEN [session_categories |-> cats, session_routes |-> sroutes]
    ELSE LET pid == WidgetPid(listed[k].pid)
         IN  IF pid \in DOMAIN cats
             THEN RefreshLoop(listed, k + 1, cats, sroutes)
             ELSE LET r == SetSessionCategory(cats, sroutes, pid,
                              DetermineCategory(listed[k].name, pid))
                  IN  RefreshLoop(listed, k + 1, r.session_categories,
                                  r.session_routes)

\* the loop of ConfigPanel.on_apply_clicked over the listed sessions: a
\* session whose lower-case name has an override gets that category
RECURSIVE ApplyLoop(_, _, _, _)
ApplyLoop(listed, k, cats, sroutes) ==
    IF k > Len(listed)
    THEN [session_categories |-> cats, session_routes |-> sroutes]
    ELSE LET pid == WidgetPid(listed[k].pid)
             name == Lower(listed[k].name)
         IN  IF name \in DOMAIN session_overrides
             THEN LET r == SetSessionCategory(cats, sroutes, pid,
                                              session_overrides[name])
                  IN  ApplyLoop(listed, k + 1, r.session_categories,
                                r.session_routes)
             ELSE ApplyLoop(listed, k + 1, cats, sroutes)

SessUnchanged ==
    /\ UNCHANGED <<eqVars, procVars, busVars, routeVars, lifeVars, monVars>>

\* the operating system's sessions change
SessChange ==
    /\ sessions' \in SessionLists
    /\ sessCall' = [NoSessCall EXCEPT !.op = "sessions_change"]
    /\ UNCHANGED <<session_categories, session_routes, device_volumes,
                   session_overrides>>
    /\ SessUnchanged

\* MixerWidget.refresh_sessions_ui
MixerRefresh ==
    \E os \in {"ok", "fails"} :
        LET r == RefreshLoop(GetActiveAudioSessions(os), 1, session_categories,
                             session_routes)
        IN  /\ session_categories' = r.session_categories
            /\ session_routes' = r.session_routes
            /\ sessCall' = [NoSessCall EXCEPT !.op = "refresh_sessions_ui",
                                              !.os = os]
            /\ UNCHANGED <<sessions, device_volumes, session_overrides>>
            /\ SessUnchanged

\* ConfigPanel.refresh_sessions_ui: the panel has no session_lists
\* attribute, its first statement raises AttributeError
ConfigRefresh ==
    /\ sessCall' = [NoSessCall EXCEPT !.op = "config_refresh_sessions_ui",
                                      !.raised = "AttributeError"]
    /\ UNCHANGED <<sessions, session_categories, session_routes,
                   device_volumes, session_overrides>>
    /\ SessUnchanged

\* ConfigPanel.on_apply_clicked, the part that applies the overrides by
\* name to the active sessions
ConfigApply ==
    \E os \in {"ok", "fails"} :
        LET r == ApplyLoop(GetActiveAudioSessions(os), 1, session_categories,
                           session_routes)
        IN  /\ session_categories' = r.session_categories
            /\ session_routes' = r.session_routes
            /\ sessCall' = [NoSessCall EXCEPT !.op = "on_apply_clicked",
                                              !.os = os]
            /\ UNCHANGED <<sessions, device_volumes, session_overrides>>
            /\ SessUnchanged

SessSetSessionCategory ==
    \E pid \in {7, 8}, category \in {"game", "chat"} :
        SetSessionCategoryCall(pid, category)

SessSetCategoryVolume ==
    \E category \in {"game", "others", "chat"}, os \in {"ok", "fails"} :
        SetCategoryVolumeCall(category, 50, os)

\* the settings panel reads its overrides from the configuration file
InitSess ==
    /\ devices = EnumerateDevices(<<"out", "in">>)
    /\ active_devices \in {[t \in {} |-> NoDevice],
                           [t \in {"game"} |-> devices[1]]}
    /\ routes = [t \in {} |-> NoRoute]
    /\ unified_device_mode = FALSE
    /\ unified_output_device = NoId
    /\ unified_input_device = NoId
    /\ virtual_devices = <<>>
    /\ routing_table = [b \in {} |-> "None"]
    /\ routeCall = NoRouteCall
    /\ sessions = <<>>
    /\ session_categories = [p \in {} |-> "None"]
    /\ session_routes = [p \in {} |-> NoId]
    /\ device_volumes = [d \in {} |-> 0]
    /\ session_overrides \in {[n \in {} |-> "None"],
                              [n \in {"game.exe"} |-> "game"]}
    /\ sessCall = NoSessCall
    /\ EqIdle /\ ProcIdle /\ BusIdle /\ LifeIdle /\ MonIdle

NextSess ==
    \/ SessChange
    \/ MixerRefresh
    \/ ConfigRefresh
    \/ ConfigApply
    \/ SessSetSessionCategory
    \/ SessSetCategoryVolume

SpecSess == InitSess /\ [][NextSess]_vars

(***************************************************************************)
(* SpecEnum: the enumeration entry points of AudioDeviceManager, each      *)
(* call finding the operating system's enumeration working or failing      *)
(* (pyaudio and pycaw raise when it fails).                                *)
(***************************************************************************)
EnumUnchanged ==
    /\ UNCHANGED <<routes, unified_device_mode, unified_output_device,
                   unified_input_device, virtual_devices, routing_table,
                   routeCall>>
    /\ UNCHANGED <<session_categories, session_routes, device_volumes,
                   session_overrides>>
    /\ UNCHANGED <<eqVars, procVars, busVars, lifeVars, monVars>>

\* AudioDeviceManager.refresh_devices: _enumerate_devices has no handler
\* of its own and refresh_devices has none around it
EnumRefreshDevices ==
    \E os \in {"ok", "fails"}, hw \in Hardware :
        /\ IF os = "ok"
           THEN LET devs == EnumerateDevices(hw)
                    device_indices == {devs[k].index : k \in 1..Len(devs)}
                    kept == {t \in DOMAIN active_devices :
                                active_devices[t].index \in device_indices}
                IN  /\ devices' = devs
                    /\ active_devices' = [t \in kept |-> active_devices[t]]
                    /\ sessCall' = [NoSessCall EXCEPT !.op = "refresh_devices",
                                                      !.os = os, !.list = devs]
           ELSE /\ UNCHANGED <<devices, active_devices>>
                /\ sessCall' = [NoSessCall EXCEPT !.op = "refresh_devices",
                                                  !.os = os,
                                                  !.raised = "OSError"]
        /\ UNCHANGED sessions
        /\ EnumUnchanged

\* AudioDeviceManager.get_output_devices / get_input_devices: the devices
\* of that type in the last enumeration
EnumGetDevices ==
    \E type \in {"output", "input"} :
        LET OfType(d) == d.type = type
        IN  /\ sessCall' = [NoSessCall EXCEPT
                              !.op = IF type = "output" THEN "get_output_devices"
                                     ELSE "get_input_devices",
                              !.list = SelectSeq(devices, OfType)]
            /\ UNCHANGED <<devices, active_devices, sessions>>
            /\ EnumUnchanged

\* AudioDeviceManager.get_active_audio_sessions
EnumGetSessions ==
    \E os \in {"ok", "fails"} :
        /\ sessCall' = [NoSessCall EXCEPT !.op = "get_active_audio_sessions",
                                          !.os = os,
                                          !.list = GetActiveAudioSessions(os)]
        /\ UNCHANGED <<devices, active_devices, sessions>>
        /\ EnumUnchanged

\* AudioDeviceManager.set_device_for_audio_type
EnumSetDevice ==
    \E audio_type \in {"game", "microphone"}, device_index \in 0..2 :
        LET r == SetDeviceForAudioType(devices, active_devices, audio_type,
                                       device_index)
        IN  /\ active_devices' = r.active_devices
            /\ sessCall' = [NoSessCall EXCEPT
                              !.op = "set_device_for_audio_type",
                              !.category = audio_type, !.device = device_index,
                              !.raised = r.raised,
                              !.ret = IF r.raised = "None" THEN "True"
                                      ELSE "None"]
            /\ UNCHANGED <<devices, sessions>>
            /\ EnumUnchanged

InitEnum ==
    /\ devices \in {EnumerateDevices(hw) : hw \in Hardware}
    /\ active_devices = [t \in {} |-> NoDevice]
    /\ routes = [t \in {} |-> NoRoute]
    /\ unified_device_mode = FALSE
    /\ unified_output_device = NoId
    /\ unified_input_device = NoId
    /\ virtual_devices = <<>>
    /\ routing_table = [b \in {} |-> "None"]
    /\ routeCall = NoRouteCall
    /\ SessIdle
    /\ EqIdle /\ ProcIdle /\ BusIdle /\ LifeIdle /\ MonIdle

NextEnum ==
    \/ EnumRefreshDevices
    \/ EnumGetDevices
    \/ EnumGetSessions
    \/ EnumSetDevice
    \/ SessChange

SpecEnum == InitEnum /\ [][NextEnum]_vars

(***************************************************************************)
(* SpecStart: VirtualAudioDevice.start() statement by statement on one     *)
(* bus: the loop that hands the format to each processor of the chain      *)
(* (an exception from set_format is swallowed), sd.Stream(...),            *)
(* stream.start(), self.is_active = True.  busCall.outcome is the          *)
(* position inside the call.                                               *)
(***************************************************************************)
\* VirtualAudioDevice.__init__: channels=2, sample_rate=48000, buffer_size=1024
BusFormat == [sample_rate |-> 48000, channels |-> 2, blocksize |-> 1024]

StartPositions == {"format", "stream_start", "activate"}

StartAt(pos) == busCall.op = "start" /\ busCall.outcome = pos

StartIdle == ~(busCall.op = "start" /\ busCall.outcome \in StartPositions)

\* a start() that opens the stream without waiting for the format loop
FormatLoopSkipped == TRUE

\* for processor in self.processing_chain: the list is exhausted
FormatLoopDone == Len(delivered) >= Len(chain)

StartFrame ==
    /\ UNCHANGED <<cbPc, cbIdx, cbLive, cbOld, trace, snaps, buffer, tick>>
    /\ UNCHANGED <<eqVars, procVars, routeVars, sessVars, monVars>>

StartAddProcessor == StartIdle /\ BusAddProcessor

StartRemoveProcessor == StartIdle /\ BusRemoveProcessor

\* start(): if self.is_active: return
StartCall ==
    /\ StartIdle
    /\ delivered' = <<>>
    /\ busCall' = [NoBusCall EXCEPT !.op = "start",
                                    !.outcome = IF is_active THEN "None"
                                                ELSE "format",
                                    !.stream = stream, !.is_active = is_active]
    /\ UNCHANGED <<chain, configured, stream, is_active>>
    /\ StartFrame

\* one iteration of the loop of lines 44-50
StartSetFormat ==
    /\ StartAt("format")
    /\ ~FormatLoopDone
    /\ \E raises \in BOOLEAN :
          LET processor == chain[Len(delivered) + 1]
          IN  /\ delivered' = Append(delivered,
                                     [proc |-> processor,
                                      sample_rate |-> BusFormat.sample_rate,
                                      channels |-> BusFormat.channels,
                                      blocksize |-> BusFormat.blocksize,
                                      raised |-> raises])
              /\ configured' = configured \cup {processor}
    /\ UNCHANGED <<chain, stream, is_active, busCall>>
    /\ StartFrame

\* self.stream = sd.Stream(...)
StartOpen ==
    /\ StartAt("format")
    /\ FormatLoopDone
    /\ \E outcome \in {"ok", "open_fails"} :
          IF outcome = "ok"
          THEN /\ stream' = "created"
               /\ busCall' = [busCall EXCEPT !.outcome = "stream_start",
                                             !.opened = 1, !.stream = "created"]
          ELSE /\ UNCHANGED stream
               /\ busCall' = [busCall EXCEPT !.outcome = outcome,
                                             !.raised = "PortAudioError"]
    /\ UNCHANGED <<chain, configured, is_active, delivered>>
    /\ StartFrame

\* self.stream.start()
StartStreamStart ==
    /\ StartAt("stream_start")
    /\ \E outcome \in {"ok", "start_fails"} :
          IF outcome = "ok"
          THEN /\ stream' = "started"
               /\ busCall' = [busCall EXCEPT !.outcome = "activate",
                                             !.stream = "started"]
          ELSE /\ UNCHANGED stream
               /\ busCall' = [busCall EXCEPT !.outcome = outcome,
                                             !.raised = "PortAudioError"]
    /\ UNCHANGED <<chain, configured, is_active, delivered>>
    /\ StartFrame

\* self.is_active = True
StartActivate ==
    /\ StartAt("activate")
    /\ is_active' = TRUE
    /\ busCall' = [busCall EXCEPT !.outcome = "ok", !.is_active = TRUE]
    /\ UNCHANGED <<chain, configured, stream, delivered>>
    /\ StartFrame

\* VirtualAudioDevice.stop
StartStop ==
    /\ StartIdle
    /\ IF is_active
       THEN stream' = "None" /\ is_active' = FALSE
       ELSE UNCHANGED <<stream, is_active>>
    /\ busCall' = [NoBusCall EXCEPT !.op = "stop",
                                    !.closed = IF is_active THEN 1 ELSE 0,
                                    !.stream = stream', !.is_active = FALSE]
    /\ UNCHANGED <<chain, configured, delivered>>
    /\ StartFrame

InitStart == InitLife

NextStart ==
    \/ StartAddProcessor
    \/ StartRemoveProcessor
    \/ StartCall
    \/ StartSetFormat
    \/ StartOpen
    \/ StartStreamStart
    \/ StartActivate
    \/ StartStop

SpecStart == InitStart /\ [][NextStart]_vars

(***************************************************************************)
(* SpecChain: the stream callback of one bus on real buffers, a whole tick *)
(* at a time (no chain mutation falls inside a tick).  chain holds the     *)
(* processor objects; indata is a (frames, 2) array.                       *)
(***************************************************************************)
ChainProcs ==
    {SetGain(NewEqualizer(1), 0, 6).eq,
     NewSpatialEnhancer(<<1, 1>>),
     NewNoiseReducer(<<1, 2>>)}

StereoFrames == {b \in Buffers : Len(b.shape) = 2 /\ b.shape[2] = 2 /\ b.shape[1] > 0}

\* the loop of the callback run back to front
RECURSIVE RunChainReversed(_, _, _, _)
RunChainReversed(procs, k, data, stages) ==
    IF k > Len(procs) THEN [data |-> data, stages |-> stages, raised |-> "None"]
    ELSE LET processor == procs[Len(procs) + 1 - k]
             r == Process(processor, data)
             stage == [proc |-> processor, arg |-> data, ret |-> r.ret]
         IN  IF r.raised # "None"
             THEN [data |-> data, stages |-> stages, raised |-> r.raised]
             ELSE RunChainReversed(procs, k + 1, r.ret, Append(stages, stage))

\* for processor in self.processing_chain:
\*     processed_data = processor.process(processed_data)
RECURSIVE RunChain(_, _, _, _)
RunChain(procs, k, data, stages) ==
    IF k > Len(procs) THEN [data |-> data, stages |-> stages, raised |-> "None"]
    ELSE LET processor == procs[k]
             r == Process(processor, data)
             stage == [proc |-> processor, arg |-> data, ret |-> r.ret]
         IN  IF r.raised # "None"
             THEN [data |-> data, stages |-> stages, raised |-> r.raised]
             ELSE RunChain(procs, k + 1, r.ret, Append(stages, stage))

\* outdata[:frames] = processed_data: numpy drops the value's leading axes
\* of length 1 and raises when what is left does not fit (frames, 2)
RECURSIVE StripOnes(_, _)
StripOnes(shape, n) ==
    IF Len(shape) > n /\ Head(shape) = 1 THEN StripOnes(Tail(shape), n)
    ELSE shape

AssignOut(processed, frames) ==
    IF StripOnes(processed.shape, 2) = <<frames, 2>>
    THEN [outdata |-> [processed EXCEPT !.shape = <<frames, 2>>],
          raised |-> "None"]
    ELSE [outdata |-> NoArray, raised |-> "ValueError"]

ChainFrame ==
    /\ UNCHANGED <<configured, stream, is_active, cbPc, cbIdx, cbLive, cbOld,
                   trace, snaps, busCall, delivered>>
    /\ UNCHANGED <<eqVars, procVars, routeVars, sessVars, monVars>>

\* VirtualAudioDevice.add_processor
ChainAddProcessor ==
    /\ Len(chain) < MaxChain
    /\ \E processor \in ChainProcs : chain' = Append(chain, processor)
    /\ UNCHANGED <<buffer, tick>>
    /\ ChainFrame

\* VirtualAudioDevice.clear_processors
ChainClearProcessors ==
    /\ chain' = <<>>
    /\ UNCHANGED <<buffer, tick>>
    /\ ChainFrame

\* the callback: self.buffer[:frames] = indata[:frames], the chain on a copy
\* of it, outdata[:frames] = processed_data
ChainTick ==
    \E indata \in StereoFrames :
        LET frames == indata.shape[1]
            processed_data == indata          \* self.buffer[:frames].copy()
            run == RunChain(chain, 1, processed_data, <<>>)
            out == IF run.raised # "None"
                   THEN [outdata |-> NoArray, raised |-> run.raised]
                   ELSE AssignOut(run.data, frames)
        IN  /\ buffer' = indata
            /\ tick' = [NoTick EXCEPT !.indata = indata,
                                      !.outdata = out.outdata,
                                      !.stages = run.stages,
                                      !.raised = out.raised]
            /\ UNCHANGED chain
            /\ ChainFrame

InitChain == InitLife

NextChain ==
    \/ ChainAddProcessor
    \/ ChainClearProcessors
    \/ ChainTick

SpecChain == InitChain /\ [][NextChain]_vars

(***************************************************************************)
(* SpecReuse: routes made onto buses that are new or already there, the    *)
(* existing ones holding a processor or running.                           *)
(***************************************************************************)
ReuseCategories == {"game", "microphone"}

ReuseFrame ==
    /\ UNCHANGED <<devices, active_devices, routes, unified_device_mode,
                   unified_output_device, unified_input_device, routing_table>>
    /\ UNCHANGED <<eqVars, procVars, busVars, lifeVars, sessVars, monVars>>

ReuseCreateRoute ==
    \E audio_type \in ReuseCategories, physical_device_id \in 0..2,
       virtual_device_name \in RouteBuses :
        /\ CreateRouteCall(audio_type, physical_device_id, virtual_device_name)
        /\ UNCHANGED <<sessVars, monVars>>

\* VirtualAudioDevice.add_processor on a bus of the router
ReuseAddProcessor ==
    \E name \in BusNames(virtual_devices) :
        LET vd == BusNamed(virtual_devices, name)
        IN  /\ vd.processing_chain = <<>>
            /\ virtual_devices' =
                  ReplaceBus(virtual_devices,
                             [vd EXCEPT !.processing_chain = Append(@, 1)])
            /\ routeCall' = [NoRouteCall EXCEPT !.op = "add_processor",
                                                !.bus = name]
            /\ ReuseFrame

\* VirtualAudioDevice.start on a bus of the router
ReuseStart ==
    \E name \in BusNames(virtual_devices), outcome \in {"ok", "start_fails"} :
        LET r == StartDevice(BusNamed(virtual_devices, name), outcome)
        IN  /\ virtual_devices' = ReplaceBus(virtual_devices, r.vd)
            /\ routeCall' = [NoRouteCall EXCEPT !.op = "start", !.bus = name,
                                                !.raised = r.raised]
            /\ ReuseFrame

NextReuse ==
    \/ ReuseCreateRoute
    \/ ReuseAddProcessor
    \/ ReuseStart
    \/ RemoveRoute

SpecReuse == InitRoute /\ [][NextReuse]_vars

(***************************************************************************)
(* SpecDesign: equalizers and bass boosts constructed at, and switched     *)
(* to, sample rates whose Nyquist frequency lies above or below their band *)
(* frequencies.                                                            *)
(***************************************************************************)
SampleRates == {48000, 8000, 1000, 30}

Cutoffs == {200, 30000}

DesignFrame ==
    UNCHANGED <<eqVars, busVars, routeVars, lifeVars, sessVars, monVars>>

DesignNewEqualizer ==
    \E sample_rate \in SampleRates, bands \in 1..MaxBands :
        LET r == EqualizerInit(sample_rate, bands)
        IN  /\ proc' = IF r.raised = "None" THEN r.eq ELSE proc
            /\ procCall' = Call("__init__", sample_rate, bands, r.raised)
            /\ DesignFrame

DesignNewBassBoost ==
    \E sample_rate \in SampleRates, cutoff \in Cutoffs :
        LET r == BassBoostInit(sample_rate, cutoff, 6)
        IN  /\ proc' = IF r.raised = "None" THEN r.obj ELSE proc
            /\ procCall' = Call("__init__", sample_rate, cutoff, r.raised)
            /\ DesignFrame

DesignSetFormat ==
    /\ proc.kind \in {"Equalizer", "BassBoost"}
    /\ \E sample_rate \in SampleRates :
          /\ proc' = IF proc.kind = "Equalizer"
                     THEN EqualizerSetFormat(proc, sample_rate).eq
                     ELSE BassBoostSetFormat(proc, sample_rate)
          /\ procCall' = Call("set_format", sample_rate, 0, "None")
    /\ DesignFrame

NextDesign ==
    \/ DesignNewEqualizer
    \/ DesignNewBassBoost
    \/ DesignSetFormat
    \/ ProcSetGain

SpecDesign == InitProc /\ [][NextDesign]_vars

(***************************************************************************)
(* SpecRace: one Equalizer shared by the audio thread, which runs          *)
(* _process_impl one loop iteration at a time, and the control thread,     *)
(* which runs set_gain and set_bands; set_bands is taken assignment by     *)
(* assignment.  Neither method takes a lock, and the interpreter may       *)
(* switch threads between any two of these steps.  eqCall.b is the         *)
(* position inside a set_bands in progress (0 when none is).               *)
(***************************************************************************)
RaceFrame ==
    /\ UNCHANGED <<lastSet, ticksSince, rt, busCall, delivered, buffer>>
    /\ UNCHANGED <<procVars, busVars, routeVars, sessVars, monVars>>

SetBandsAt(step) == eqCall.op = "set_bands" /\ eqCall.b = step

RaceControlIdle == ~(eqCall.op = "set_bands" /\ eqCall.b # 0)

\* set_gain: self.gains[band] = gain_db is one store into the array
RaceSetGain ==
    /\ RaceControlIdle
    /\ \E band \in 0..(eq.bands - 1), gain_db \in GainValues :
          /\ eq' = SetGain(eq, band, gain_db).eq
          /\ eqCall' = Call("set_gain", band, 0, "None")
    /\ UNCHANGED tick
    /\ RaceFrame

\* set_bands, lines 198-206: self.bands and self.frequencies
RaceSetBandsCall ==
    /\ RaceControlIdle
    /\ \E n \in 1..MaxBands :
          /\ eq' = [eq EXCEPT !.bands = Max(1, n),
                              !.frequencies = Logspace(Max(1, n))]
          /\ eqCall' = Call("set_bands", n, 1, "None")
    /\ UNCHANGED tick
    /\ RaceFrame

\* set_bands, lines 207-211: self.gains = new_gains
RaceSetBandsGains ==
    /\ SetBandsAt(1)
    /\ LET old_gains == eq.gains
           copy_count == Min(Len0(old_gains), eq.bands)
           new_gains == [i \in 0..(eq.bands - 1) |->
                            IF i < copy_count THEN old_gains[i] ELSE 0]
       IN  eq' = [eq EXCEPT !.gains = new_gains]
    /\ eqCall' = [eqCall EXCEPT !.b = 2]
    /\ UNCHANGED tick
    /\ RaceFrame

\* set_bands, lines 212-213: the smoothed gains and the filters
RaceSetBandsFinish ==
    /\ SetBandsAt(2)
    /\ eq' = UpdateFilters([eq EXCEPT !.smoothed_gains = eq.gains], eq.gains)
    /\ eqCall' = [eqCall EXCEPT !.b = 0]
    /\ UNCHANGED tick
    /\ RaceFrame

\* _process_impl on a non-empty buffer: range(self.bands) is evaluated
RaceTickBegin ==
    /\ tick.pc = "idle"
    /\ eq.enabled
    /\ tick' = [NoTick EXCEPT !.pc = "iter", !.bands = eq.bands]
    /\ UNCHANGED <<eq, eqCall>>
    /\ RaceFrame

\* one iteration: data *= self.gains[band]; an IndexError is caught by the
\* handler of line 282 and ends the loop
RaceTickIter ==
    /\ tick.pc = "iter"
    /\ tick.band < tick.bands
    /\ LET len == Len0(eq.gains)
           read == [bands |-> tick.bands, gains_len |-> len]
       IN  tick' = IF tick.band >= len
                   THEN [tick EXCEPT !.seen = Append(@, read), !.pc = "done",
                                     !.raised = "IndexError"]
                   ELSE [tick EXCEPT !.seen = Append(@, read),
                                     !.band = @ + 1]
    /\ UNCHANGED <<eq, eqCall>>
    /\ RaceFrame

\* the range is exhausted: return data
RaceTickEnd ==
    /\ tick.pc = "iter"
    /\ tick.band >= tick.bands
    /\ tick' = [tick EXCEPT !.pc = "done"]
    /\ UNCHANGED <<eq, eqCall>>
    /\ RaceFrame

\* process has returned; the next callback may call it again
RaceTickReturn ==
    /\ tick.pc = "done"
    /\ tick' = NoTick
    /\ UNCHANGED <<eq, eqCall>>
    /\ RaceFrame

NextRace ==
    \/ RaceSetGain
    \/ RaceSetBandsCall
    \/ RaceSetBandsGains
    \/ RaceSetBandsFinish
    \/ RaceTickBegin
    \/ RaceTickIter
    \/ RaceTickEnd
    \/ RaceTickReturn

SpecRace == InitEq /\ [][NextRace]_vars

(***************************************************************************)
(* SpecMonitor: device monitoring.  The control thread calls               *)
(* start_device_monitoring, stop_device_monitoring and                     *)
(* set_device_for_audio_type; every _monitor_devices thread runs one       *)
(* statement at a time; the host's devices change underneath.  A thread    *)
(* slot is reused once its thread has returned.                            *)
(***************************************************************************)
MaxThreads == 2

HostPool == { <<"out", "in">>, <<"in", "out">>, <<"out", "out", "in">> }

MonitorCategories == {"game"}

NoThread == [pc |-> "unstarted", last_device_count |-> 0, current_count |-> 0]

\* the threads that have been started and have not returned
LiveThreads == {i \in 1..Len(threads) : threads[i].pc \notin {"unstarted", "dead"}}

FreeSlots == {i \in 1..Len(threads) : threads[i].pc \in {"unstarted", "dead"}}

\* self.pyaudio.get_device_count()
GetDeviceCount == Len(host)

\* AudioDeviceManager.refresh_devices on the devices the host has
RefreshDevicesCall(hw, active) ==
    LET devs == EnumerateDevices(hw)
        device_indices == {devs[k].index : k \in 1..Len(devs)}
        kept == {t \in DOMAIN active : active[t].index \in device_indices}
    IN  [devices |-> devs, active_devices |-> [t \in kept |-> active[t]]]

MonFrame ==
    /\ UNCHANGED <<routes, unified_device_mode, unified_output_device,
                   unified_input_device, virtual_devices, routing_table>>
    /\ UNCHANGED <<eqVars, procVars, busVars, lifeVars, sessVars>>

MonControlIdle == monCall.pc = "done"

\* AudioDeviceManager.start_device_monitoring
MonStart ==
    /\ MonControlIdle
    /\ IF monitoring
       THEN UNCHANGED <<monitoring, monitor_thread, threads>>
       ELSE /\ FreeSlots # {}
            /\ LET i == CHOOSE s \in FreeSlots : \A o \in FreeSlots : s <= o
               IN  /\ monitoring' = TRUE
                   /\ monitor_thread' = i
                   /\ threads' = [threads EXCEPT ![i] = [NoThread EXCEPT !.pc = "begin"]]
    /\ monCall' = [monCall EXCEPT !.op = "start_device_monitoring", !.pc = "done"]
    /\ routeCall' = NoRouteCall
    /\ UNCHANGED <<host, devices, active_devices>>
    /\ MonFrame

\* stop_device_monitoring, lines 184-186: clear the flag, then join the
\* thread for at most one second
MonStopCall ==
    /\ MonControlIdle
    /\ monitoring' = FALSE
    /\ monCall' = [op |-> "stop_device_monitoring",
                   pc |-> IF monitor_thread # NoId THEN "join" ELSE "done",
                   changed |-> FALSE]
    /\ routeCall' = NoRouteCall
    /\ UNCHANGED <<host, monitor_thread, threads, devices, active_devices>>
    /\ MonFrame

\* join(timeout=1.0) returns when the thread has returned, or after one
\* second, which a thread inside time.sleep(2) can outlast
JoinReturns(t) == t.pc = "dead" \/ t.pc = "sleep"

\* stop_device_monitoring, lines 186-187
MonStopReturn ==
    /\ monCall.op = "stop_device_monitoring" /\ monCall.pc = "join"
    /\ JoinReturns(threads[monitor_thread])
    /\ monitor_thread' = NoId
    /\ monCall' = [monCall EXCEPT !.pc = "done"]
    /\ routeCall' = NoRouteCall
    /\ UNCHANGED <<host, monitoring, threads, devices, active_devices>>
    /\ MonFrame

\* what makes _monitor_devices refresh: the device count differs from the
\* count it saw last
ChangeSeen(t) == t.current_count # t.last_device_count

\* one statement of the _monitor_devices thread in slot i
MonThread(i) ==
    /\ i \in LiveThreads
    /\ LET t == threads[i]
       IN  CASE t.pc = "begin" ->
                  /\ threads' = [threads EXCEPT ![i].last_device_count = GetDeviceCount,
                                                ![i].pc = "while"]
                  /\ routeCall' = NoRouteCall
                  /\ UNCHANGED <<devices, active_devices, monCall>>
             [] t.pc = "while" ->
                  /\ threads' = [threads EXCEPT
                                    ![i].pc = IF monitoring THEN "count" ELSE "dead"]
                  /\ routeCall' = NoRouteCall
                  /\ UNCHANGED <<devices, active_devices, monCall>>
             [] t.pc = "count" ->
                  LET seen == [t EXCEPT !.current_count = GetDeviceCount]
                  IN  /\ threads' = [threads EXCEPT
                                        ![i] = [seen EXCEPT
                                                   !.pc = IF ChangeSeen(seen)
                                                          THEN "refresh" ELSE "sleep"]]
                      /\ routeCall' = NoRouteCall
                      /\ UNCHANGED <<devices, active_devices, monCall>>
             [] t.pc = "refresh" ->
                  LET r == RefreshDevicesCall(host, active_devices)
                  IN  /\ devices' = r.devices
                      /\ active_devices' = r.active_devices
                      /\ threads' = [threads EXCEPT
                                        ![i].last_device_count = t.current_count,
                                        ![i].pc = "sleep"]
                      /\ routeCall' = [NoRouteCall EXCEPT !.op = "refresh_devices"]
                      /\ monCall' = [monCall EXCEPT !.changed = FALSE]
             [] t.pc = "sleep" ->
                  /\ threads' = [threads EXCEPT ![i].pc = "while"]
                  /\ routeCall' = NoRouteCall
                  /\ UNCHANGED <<devices, active_devices, monCall>>
    /\ UNCHANGED <<host, monitoring, monitor_thread>>
    /\ MonFrame

MonThreadStep == \E i \in 1..MaxThreads : MonThread(i)

\* a device is plugged in, unplugged, or replaced by another
HostChange ==
    /\ \E hw \in HostPool \ {host} : host' = hw
    /\ monCall' = [monCall EXCEPT !.changed = @ \/ monitoring]
    /\ routeCall' = NoRouteCall
    /\ UNCHANGED <<monitoring, monitor_thread, threads, devices, active_devices>>
    /\ MonFrame

\* AudioDeviceManager.set_device_for_audio_type, from the control thread
MonSetDevice ==
    /\ MonControlIdle
    /\ \E audio_type \in MonitorCategories, device_index \in 0..1 :
          LET r == SetDeviceForAudioType(devices, active_devices, audio_type,
                                         device_index)
          IN  /\ active_devices' = r.active_devices
              /\ routeCall' = [NoRouteCall EXCEPT
                                  !.op = "set_device_for_audio_type",
                                  !.audio_type = audio_type, !.raised = r.raised]
    /\ UNCHANGED <<host, monitoring, monitor_thread, threads, monCall, devices>>
    /\ MonFrame

\* AudioDeviceManager.__init__ on a host of the pool
InitMonitor ==
    /\ host \in HostPool
    /\ devices = EnumerateDevices(host)
    /\ active_devices = [t \in {} |-> NoDevice]
    /\ routes = [t \in {} |-> NoRoute]
    /\ unified_device_mode = FALSE
    /\ unified_output_device = NoId
    /\ unified_input_device = NoId
    /\ virtual_devices = <<>>
    /\ routing_table = [b \in {} |-> "None"]
    /\ routeCall = NoRouteCall
    /\ monitoring = FALSE
    /\ monitor_thread = NoId
    /\ threads = [i \in 1..MaxThreads |-> NoThread]
    /\ monCall = NoMonCall
    /\ EqIdle /\ ProcIdle /\ BusIdle /\ LifeIdle /\ SessIdle

NextMonitor ==
    \/ MonStart
    \/ MonStopCall
    \/ MonStopReturn
    \/ MonThreadStep
    \/ HostChange
    \/ MonSetDevice

SpecMonitor == InitMonitor /\ [][NextMonitor]_vars

\* every started thread is scheduled: none waits forever at a statement
FairMonitor == SpecMonitor /\ \A i \in 1..MaxThreads : WF_vars(MonThread(i))

(***************************************************************************)
(* SpecApply: apply_audio_processing and remove_audio_processing called    *)
(* in any order and any number of times, with the same or with different   *)
(* processors, on categories that have a route or have none.               *)
(***************************************************************************)
ApplyCategories == {"game", "chat"}

ApplyProcessors == {1, 2}

\* the chain of the bus the category's route names
RoutedChain(audio_type) ==
    LET OfRoute(vd) == vd.name = routes[audio_type].bus
        found == SelectSeq(virtual_devices, OfRoute)
    IN  IF found = <<>> THEN <<>> ELSE found[1].processing_chain

ApplyCreateRoute ==
    \E audio_type \in ApplyCategories, virtual_device_name \in RouteBuses :
        /\ CreateRouteCall(audio_type, 0, virtual_device_name)
        /\ sessCall' = [NoSessCall EXCEPT !.op = "create_route",
                                          !.category = audio_type,
                                          !.raised = routeCall'.raised,
                                          !.ret = routeCall'.ret]
        /\ UNCHANGED <<sessions, session_categories, session_routes,
                       device_volumes, session_overrides>>

ApplyProcessing ==
    \E audio_type \in ApplyCategories, processor \in ApplyProcessors :
        /\ audio_type \in DOMAIN routes => Len(RoutedChain(audio_type)) < MaxChain
        /\ ProcessingCall("apply_audio_processing", audio_type, processor)

ApplyRemoveProcessing ==
    \E audio_type \in ApplyCategories, processor \in ApplyProcessors :
        ProcessingCall("remove_audio_processing", audio_type, processor)

NextApply ==
    \/ ApplyCreateRoute
    \/ ApplyProcessing
    \/ ApplyRemoveProcessing

SpecApply == InitRoute /\ [][NextApply]_vars

(***************************************************************************)
(* SpecRouter: the VirtualAudioRouter on its own: buses created and        *)
(* removed, bus-to-bus routes made and removed.  route_audio starts both   *)
(* buses, and opening or starting a stream can fail.                       *)
(***************************************************************************)
RouterFrame ==
    /\ UNCHANGED <<devices, active_devices, routes, unified_device_mode,
                   unified_output_device, unified_input_device, routeCall>>
    /\ UNCHANGED <<eqVars, procVars, busVars, tickVars, sessVars, monVars>>

\* route_audio, lines 151-152: start the source, then the destination; a
\* start() that raises ends the call
StartBoth(vds, source_name, destination_name, outcomes) ==
    LET first == StartDevice(BusNamed(vds, source_name), outcomes[1])
        vds1 == ReplaceBus(vds, first.vd)
        second == StartDevice(BusNamed(vds1, destination_name), outcomes[2])
    IN  IF first.raised # "None"
        THEN [vds |-> vds1, raised |-> first.raised]
        ELSE [vds |-> ReplaceBus(vds1, second.vd), raised |-> second.raised]

\* VirtualAudioRouter.route_audio
RouterRouteAudio ==
    \E source_name \in RouteBuses, destination_name \in RouteBuses,
       outcomes \in [1..2 -> StreamOutcomes] :
        /\ IF \/ source_name \notin BusNames(virtual_devices)
              \/ destination_name \notin BusNames(virtual_devices)
           THEN /\ busCall' = [NoBusCall EXCEPT !.op = "route_audio",
                                               !.bus = source_name,
                                               !.raised = "ValueError"]
                /\ UNCHANGED <<virtual_devices, routing_table>>
           ELSE LET r == StartBoth(virtual_devices, source_name,
                                   destination_name, outcomes)
                IN  /\ routing_table' =
                          DictSet(routing_table, source_name, destination_name)
                    /\ virtual_devices' = r.vds
                    /\ busCall' = [NoBusCall EXCEPT !.op = "route_audio",
                                                   !.bus = source_name,
                                                   !.raised = r.raised]
        /\ RouterFrame

\* VirtualAudioRouter.remove_route
RouterRemoveRoute ==
    \E source_name \in RouteBuses :
        /\ routing_table' = IF source_name \in DOMAIN routing_table
                            THEN DictDel(routing_table, source_name)
                            ELSE routing_table
        /\ busCall' = [NoBusCall EXCEPT !.op = "remove_route", !.bus = source_name]
        /\ UNCHANGED virtual_devices
        /\ RouterFrame

\* VirtualAudioRouter.remove_virtual_device: busCall keeps the stream and
\* the is_active of the bus as device.stop() left them
RouterRemoveVirtualDevice ==
    \E name \in RouteBuses :
        /\ IF name \notin BusNames(virtual_devices)
           THEN /\ busCall' = [NoBusCall EXCEPT !.op = "remove_virtual_device",
                                               !.bus = name]
                /\ UNCHANGED <<virtual_devices, routing_table>>
           ELSE LET device == BusNamed(virtual_devices, name)
                    stopped == StoppedDevice(device)
                    NotIt(vd) == vd.name # name
                    gone == {source \in DOMAIN routing_table :
                                source = name \/ routing_table[source] = name}
                IN  /\ routing_table' =
                          [source \in DOMAIN routing_table \ gone |->
                              routing_table[source]]
                    /\ virtual_devices' = SelectSeq(virtual_devices, NotIt)
                    /\ busCall' = [NoBusCall EXCEPT
                                      !.op = "remove_virtual_device", !.bus = name,
                                      !.closed = ClosedBy(device),
                                      !.stream = stopped.stream,
                                      !.is_active = stopped.is_active]
        /\ RouterFrame

NextRouter ==
    \/ LifeCreate
    \/ RouterRouteAudio
    \/ RouterRemoveRoute
    \/ RouterRemoveVirtualDevice

SpecRouter == InitLife /\ [][NextRouter]_vars

(***************************************************************************)
(* C3: when a virtual bus named by the routes of two or more categories is *)
(* removed, no route of the routing system names that bus afterwards, and  *)
(* the bus's stop() was invoked exactly once by the removal.               *)
(***************************************************************************)
RoutesNaming(rs, name) == {t \in DOMAIN rs : rs[t].bus = name}

C3_RemovingBusRemovesItsRoutes ==
    [][(/\ routeCall'.op = "remove_virtual_device"
        /\ routeCall'.ret = "True"
        /\ Cardinality(RoutesNaming(routes, routeCall'.bus)) >= 2)
         => (/\ RoutesNaming(routes', routeCall'.bus) = {}
             /\ routeCall'.stops = 1)]_vars

(***************************************************************************)
(* C4: after set_unified_device_mode(true, D_out, D_in) has succeeded with *)
(* D_out an enumerated output device and D_in an enumerated input device,  *)
(* a successful create_route(c, D_other, bus) stores D_out for an output   *)
(* category c and D_in for the microphone, whatever D_other is.            *)
(***************************************************************************)
IsEnumerated(id, type) ==
    \E k \in 1..Len(devices) : devices[k].index = id /\ devices[k].type = type

C4_CreateRouteStoresUnifiedDevice ==
    [][(/\ unified_device_mode
        /\ IsEnumerated(unified_output_device, "output")
        /\ IsEnumerated(unified_input_device, "input")
        /\ routeCall'.op = "create_route"
        /\ routeCall'.ret = "True")
         => routes'[routeCall'.audio_type].device =
               IF routeCall'.audio_type = "microphone"
               THEN unified_input_device ELSE unified_output_device]_vars

(***************************************************************************)
(* C5: whenever unified mode is enabled, every stored route of an output   *)
(* category has the unified output device and the microphone route, if     *)
(* any, has the unified input device, also for routes made earlier.        *)
(* Stated for unified devices that are enumerated, of the right direction  *)
(* and not device 0, so that only routes made before the mode or its       *)
(* devices were set can differ.                                            *)
(***************************************************************************)
C5_UnifiedModeForcesStoredRoutes ==
    unified_device_mode =>
        \A t \in DOMAIN routes :
            LET u == IF t = "microphone"
                     THEN unified_input_device ELSE unified_output_device
                type == IF t = "microphone" THEN "input" ELSE "output"
            IN  (Truthy(u) /\ IsEnumerated(u, type)) => routes[t].device = u

(***************************************************************************)
(* C6: after any sequence of create_route, remove_route,                   *)
(* set_unified_device_mode and refresh_devices, the microphone route names *)
(* an enumerated input device and every other route names an enumerated    *)
(* output device.                                                          *)
(***************************************************************************)
C6_RouteDirectionMatchesCategory ==
    \A t \in DOMAIN routes :
        IsEnumerated(routes[t].device,
                     IF t = "microphone" THEN "input" ELSE "output")

(***************************************************************************)
(* C1: whichever processor variant a stage is, if its process() throws     *)
(* during a callback tick the failure is caught inside the callback, the   *)
(* stage is bypassed for that tick and the callback does not raise.        *)
(***************************************************************************)
C1_CallbackCatchesStageFailure ==
    /\ cbPc # "raised"
    /\ \A i \in 1..Len(trace) : trace[i].outcome # "threw"

(***************************************************************************)
(* C2: under any interleaving of the callback with add_processor,          *)
(* remove_processor and clear_processors, the processors one tick calls    *)
(* are, in order, the chain as it was at one instant of that tick.         *)
(***************************************************************************)
C2_TickSeesOneSnapshot ==
    cbPc = "done" => Visited(trace) \in snaps

(***************************************************************************)
(* C7: Equalizer.set_gain(i, g) with i < 0 or i >= band_count raises to    *)
(* the caller and leaves the whole equalizer object (target gains,         *)
(* smoothed gains, filters, dirty flag, band count) unchanged.             *)
(***************************************************************************)
C7_SetGainOutOfRangeRaises ==
    [][(eqCall'.op = "set_gain" /\ (eqCall'.a < 0 \/ eqCall'.a >= eq.bands))
         => (eqCall'.raised = "ValueError" /\ eq' = eq)]_vars

C7_Witness ==
    /\ eqCall.op = "set_gain" /\ eqCall.a = -1 /\ eqCall.b # 0
    /\ eqCall.raised = "ValueError"
    /\ \E i \in DOMAIN eq.gains : eq.gains[i] # 0

(***************************************************************************)
(* C8: for every processor variant and every buffer shape (also one-       *)
(* dimensional and empty buffers), process(buffer) on a disabled processor *)
(* returns the buffer unmodified, raises nothing and leaves the            *)
(* processor's state as it was.                                            *)
(***************************************************************************)
C8_DisabledProcessIsIdentity ==
    [][(procCall'.op = "process" /\ ~proc.enabled)
         => /\ procCall'.raised = "None"
            /\ procCall'.ret = procCall'.arg
            /\ procCall'.argAfter = procCall'.arg
            /\ proc' = proc]_vars

C8_Witness ==
    /\ procCall.op = "process" /\ ~proc.enabled
    /\ proc.kind = "NoiseReducer"
    /\ Len(procCall.arg.shape) = 2 /\ Size(procCall.arg) > 0
    /\ procCall.ret = procCall.arg

(***************************************************************************)
(* C9: after set_gain(i, g) on a valid band and process() ticks lasting at *)
(* least 5 smoothing time constants (NeededTicks ticks), the smoothed gain *)
(* of band i is within 0.01 dB of g.                                       *)
(***************************************************************************)
C9_SmoothedGainConverges ==
    (lastSet # NoSet /\ ticksSince >= NeededTicks)
        => 100 * Abs(eq.smoothed_gains[lastSet[1]] - lastSet[2]) <= 1

(***************************************************************************)
(* C10: from an equalizer with n bands, set_bands(m) then set_bands(n),    *)
(* m >= 1, gives back the n-band frequency table, the original target gain *)
(* at every index below min(n, m) and gain 0 at every index from min(n, m) *)
(* on.                                                                     *)
(***************************************************************************)
C10_ResizeRoundTrip ==
    (rt.pc = "restored" /\ rt.m >= 1)
        => /\ eq.bands = rt.n
           /\ eq.frequencies = rt.frequencies
           /\ DOMAIN eq.gains = 0..(rt.n - 1)
           /\ \A i \in 0..(rt.n - 1) :
                 eq.gains[i] = IF i < Min(rt.n, rt.m) THEN rt.gains[i] ELSE 0

C10_Witness ==
    /\ rt.pc = "restored" /\ rt.m >= 1 /\ rt.m < rt.n
    /\ rt.gains[0] # 0 /\ rt.gains[rt.n - 1] # 0
    /\ eq.gains[0] = rt.gains[0] /\ eq.gains[rt.n - 1] = 0

(***************************************************************************)
(* C11: once stop() on a bus, or its teardown, has returned, the bus holds *)
(* no stream handle, also when the start() before it raised after the      *)
(* stream object had been created.                                         *)
(***************************************************************************)
C11_StopReleasesStream ==
    [][busCall'.op \in {"stop", "__del__"} => busCall'.stream = "None"]_vars

(***************************************************************************)
(* C12: a start() whose stream cannot be opened or started raises to its   *)
(* caller and leaves the bus not active; after start_all_devices, failed   *)
(* or not, every bus that is active has a started stream, and a failure    *)
(* in it is raised to the caller.                                          *)
(***************************************************************************)
C12_FailedStartLeavesBusStopped ==
    [][/\ (busCall'.op = "start"
             /\ busCall'.outcome \in {"open_fails", "start_fails"})
          => (busCall'.raised # "None" /\ ~busCall'.is_active)
       /\ busCall'.op = "start_all_devices"
          => /\ \A k \in 1..Len(virtual_devices') :
                   virtual_devices'[k].is_active
                      => virtual_devices'[k].stream = "started"
             /\ busCall'.outcome = "fails" => busCall'.raised # "None"]_vars

C12_Witness ==
    /\ busCall.op = "start_all_devices"
    /\ busCall.outcome = "fails" /\ busCall.raised = "PortAudioError"
    /\ \E k \in 1..Len(virtual_devices) : virtual_devices[k].is_active
    /\ \E k \in 1..Len(virtual_devices) :
          ~virtual_devices[k].is_active /\ virtual_devices[k].stream = "created"

(***************************************************************************)
(* C13: start() on an active bus opens no stream and leaves the bus as it  *)
(* is; stop() closes at most one stream and leaves the bus not active, and *)
(* on a bus that is not active it closes nothing and changes nothing.      *)
(***************************************************************************)
C13_StartStopIdempotent ==
    [][busCall'.op \in {"start", "stop"} =>
         LET before == BusNamed(virtual_devices, busCall'.bus)
             after == BusNamed(virtual_devices', busCall'.bus)
         IN  /\ (busCall'.op = "start" /\ before.is_active)
                   => (busCall'.opened = 0 /\ after = before)
             /\ busCall'.op = "stop"
                   => /\ busCall'.closed <= 1
                      /\ ~after.is_active
                      /\ ~before.is_active
                            => (busCall'.closed = 0 /\ after = before)]_vars

C13_Witness ==
    /\ busCall.op = "start" /\ busCall.outcome = "None" /\ busCall.opened = 0
    /\ busCall.is_active /\ busCall.stream = "started"

C15_UnknownCategoryRaises ==
    [][(/\ sessCall'.op \in {"create_route", "apply_audio_processing",
                             "remove_audio_processing", "set_session_category",
                             "set_category_volume"}
        /\ sessCall'.category \notin Range(AudioTypes))
         => sessCall'.raised # "None"]_vars

(***************************************************************************)
(* C16: create_route for a known category with a physical device id that   *)
(* is not in the device enumeration raises nothing and returns False.      *)
(***************************************************************************)
C16_VanishedDeviceReturnsFalse ==
    [][(/\ sessCall'.op = "create_route"
        /\ sessCall'.category \in Range(AudioTypes)
        /\ FindDevice(devices, sessCall'.device) = NoDevice)
         => (sessCall'.raised = "None" /\ sessCall'.ret = "False")]_vars

(***************************************************************************)
(* C18: set_category_volume(c, level) for an output category c, the        *)
(* operating system answering, sets level on every active session whose    *)
(* resolved category is c (its assigned category if it has one, otherwise  *)
(* the category the auto rules give it) and leaves every other session's   *)
(* volume as it was.                                                       *)
(***************************************************************************)
ResolvedCategory(s) ==
    IF s.pid \in DOMAIN session_categories THEN session_categories[s.pid]
    ELSE DetermineCategory(s.name, s.pid)

C18_CategoryVolumeReachesResolvedSessions ==
    [][(/\ sessCall'.op = "set_category_volume"
        /\ sessCall'.category \in SessionCategoryNames
        /\ sessCall'.os = "ok")
         => /\ Len(sessions') = Len(sessions)
            /\ \A k \in 1..Len(sessions) :
                  sessions'[k].volume =
                     IF ResolvedCategory(sessions[k]) = sessCall'.category
                     THEN sessCall'.level ELSE sessions[k].volume]_vars

C17_FailedEnumerationYieldsEmptyList ==
    [][(/\ sessCall'.op \in {"refresh_devices", "get_active_audio_sessions"}
        /\ sessCall'.os = "fails")
         => (sessCall'.raised = "None" /\ sessCall'.list = <<>>)]_vars

(***************************************************************************)
(* C20: process on an enabled Equalizer raises nothing and returns an      *)
(* array of its input's shape, with the native backend absent, present or  *)
(* failing; when the backend's call fails, what is returned is the input   *)
(* array with the samples it came in with.                                 *)
(***************************************************************************)
C20_EnabledProcessNeverRaises ==
    [][(eqCall'.op = "process" /\ eq.enabled)
         => /\ eqCall'.raised = "None"
            /\ eqCall'.ret.shape = eqCall'.arg.shape
            /\ (eq.native = "failing engine"
                  => /\ eqCall'.ret = eqCall'.arg
                     /\ eqCall'.argAfter = eqCall'.arg)]_vars

C20_Witness ==
    /\ eqCall.op = "process"
    /\ eq.enabled
    /\ eq.native = "failing engine"
    /\ Size(eqCall.arg) > 0
    /\ \E b \in DOMAIN eq.gains : eq.gains[b] # 0

(***************************************************************************)
(* C21: process on an enabled Equalizer whose band gains and output gain   *)
(* are all 0 dB returns a non-empty buffer with its samples unchanged      *)
(* (the cascade of band filters followed by the output gain is then the    *)
(* identity).                                                              *)
(***************************************************************************)
C21_FlatEqualizerIsIdentity ==
    [][(/\ eqCall'.op = "process"
        /\ eq.enabled
        /\ \A b \in DOMAIN eq.gains : eq.gains[b] = 0
        /\ eq.output_gain_db = 0
        /\ Size(eqCall'.arg) > 0)
         => eqCall'.ret.data = eqCall'.arg.data]_vars

(***************************************************************************)
(* C22: for every width in [0, 1] and every non-empty stereo buffer, the   *)
(* output of an enabled SpatialEnhancer has no sample above 1.0 in         *)
(* absolute value.                                                         *)
(***************************************************************************)
IsStereo(a) == Len(a.shape) = 2 /\ a.shape[2] = 2 /\ a.shape[1] > 0

C22_SpatialPeakAtMostOne ==
    [][(/\ procCall'.op = "process"
        /\ proc.kind = "SpatialEnhancer" /\ proc.enabled
        /\ IsStereo(procCall'.arg))
         => /\ procCall'.raised = "None"
            /\ \A k \in 1..Len(procCall'.ret.data) :
                  RLe(RAbs(procCall'.ret.data[k]), RInt(1))]_vars

C22_Witness ==
    /\ procCall.op = "process"
    /\ proc.kind = "SpatialEnhancer" /\ proc.enabled
    /\ proc.width = <<1, 1>>
    /\ IsStereo(procCall.arg)
    /\ ~RLe(MaxAbs(procCall.arg.data), RInt(1))
    /\ MaxAbs(procCall.ret.data) = RInt(1)

(***************************************************************************)
(* C23: an enabled SpatialEnhancer with width 0 returns every stereo       *)
(* buffer sample for sample as it came in, also when samples exceed 1.0 in *)
(* magnitude.                                                              *)
(***************************************************************************)
C23_ZeroWidthIsIdentity ==
    [][(/\ procCall'.op = "process"
        /\ proc.kind = "SpatialEnhancer" /\ proc.enabled
        /\ proc.width = <<0, 1>>
        /\ IsStereo(procCall'.arg))
         => /\ procCall'.raised = "None"
            /\ procCall'.ret.data = procCall'.arg.data]_vars

(***************************************************************************)
(* C24: an enabled NoiseReducer with threshold 0 returns every buffer      *)
(* sample for sample as it came in and in the input's shape, also buffers  *)
(* holding zero samples and two-dimensional buffers.                       *)
(***************************************************************************)
C24_ZeroThresholdIsIdentity ==
    [][(/\ procCall'.op = "process"
        /\ proc.kind = "NoiseReducer" /\ proc.enabled
        /\ proc.threshold = <<0, 1>>)
         => /\ procCall'.raised = "None"
            /\ procCall'.ret.shape = procCall'.arg.shape
            /\ procCall'.ret.data = procCall'.arg.data]_vars

(***************************************************************************)
(* C25: in a start() on a stopped bus, by the time the stream has been     *)
(* opened every processor of the chain has been handed set_format with the *)
(* bus's sample rate, channel count and block size, in chain order; and    *)
(* the bus is marked active only once the stream has been started.         *)
(***************************************************************************)
FormatDelivered ==
    /\ Len(delivered) = Len(chain)
    /\ \A k \in 1..Len(chain) :
          /\ delivered[k].proc = chain[k]
          /\ delivered[k].sample_rate = BusFormat.sample_rate
          /\ delivered[k].channels = BusFormat.channels
          /\ delivered[k].blocksize = BusFormat.blocksize

C25_FormatBeforeOpenActiveAfterStart ==
    /\ (StartAt("stream_start") \/ StartAt("activate")) => FormatDelivered
    /\ is_active => stream = "started"

C25_Witness ==
    /\ StartAt("activate")
    /\ ~is_active
    /\ Len(chain) = MaxChain
    /\ FormatDelivered
    /\ \E k \in 1..Len(delivered) : delivered[k].raised

C27_CreateRouteEnsuresOneBus ==
    [][(routeCall'.op = "create_route" /\ routeCall'.ret = "True")
         => LET name == routeCall'.bus
                category == routeCall'.audio_type
                named == {k \in 1..Len(virtual_devices') :
                             virtual_devices'[k].name = name}
            IN  /\ Cardinality(named) = 1
                /\ IF name \in BusNames(virtual_devices)
                   THEN virtual_devices' = virtual_devices
                   ELSE LET vd == BusNamed(virtual_devices', name)
                        IN  /\ ~vd.is_active
                            /\ vd.stream = "None"
                            /\ vd.processing_chain = <<>>
                /\ category \in DOMAIN routes'
                /\ routes'[category] =
                      [device |-> active_devices'[category].index, bus |-> name]]_vars

C27_Witness ==
    /\ routeCall.op = "create_route" /\ routeCall.ret = "True"
    /\ routeCall.audio_type = "game" /\ routeCall.bus = "bus_b"
    /\ Len(virtual_devices) = 2
    /\ LET vd == BusNamed(virtual_devices, "bus_b")
       IN  vd.is_active /\ vd.processing_chain # <<>>
    /\ "microphone" \in DOMAIN routes /\ routes["microphone"].bus = "bus_b"

(***************************************************************************)
(* C28: a set_gain(i, g) that succeeds changes the target gain of band i   *)
(* and sets the dirty flag, and nothing else: the other bands' target      *)
(* gains, the smoothed gains, the band count, the frequency table and the  *)
(* filter coefficients are as they were before the call.                   *)
(***************************************************************************)
C28_SetGainTouchesOneBand ==
    [][(eqCall'.op = "set_gain" /\ eqCall'.raised = "None")
         => LET i == eqCall'.a
            IN  /\ eq'.gains[i] = eqCall'.b
                /\ eq'.needs_update
                /\ DOMAIN eq'.gains = DOMAIN eq.gains
                /\ \A j \in DOMAIN eq.gains \ {i} : eq'.gains[j] = eq.gains[j]
                /\ eq'.smoothed_gains = eq.smoothed_gains
                /\ eq'.bands = eq.bands
                /\ eq'.frequencies = eq.frequencies
                /\ eq'.filters = eq.filters]_vars

C28_Witness ==
    /\ eqCall.op = "set_gain" /\ eqCall.raised = "None"
    /\ eq.bands = 2
    /\ eqCall.a = 1 /\ eqCall.b = 6
    /\ eq.gains[1] = 6 /\ eq.gains[0] = -6
    /\ eq.smoothed_gains = Zeros(2)
    /\ eq.filters = <<>>

(***************************************************************************)
(* C29: at construction and at a set_format that changes the sample rate,  *)
(* filter design raises nothing to the caller; an equalizer band whose     *)
(* frequency or band edge is not inside (0, Nyquist) gets no filter (a     *)
(* neutral one), and every other band with a gain gets its filter.         *)
(***************************************************************************)
BandsDesigned(e) ==
    {i \in DOMAIN e.gains :
        /\ Abs(e.gains[i]) >= 1
        /\ ButterValid(FilterRole(i, e.bands), FreqHz(e.frequencies[i]),
                       e.sample_rate)}

C29_DesignFailureIsNeutral ==
    [][procCall'.op \in {"__init__", "set_format"}
         => /\ procCall'.raised = "None"
            /\ (procCall'.raised = "None" /\ proc'.kind = "Equalizer")
                  => {proc'.filters[k].band : k \in 1..Len(proc'.filters)}
                        = BandsDesigned(proc')]_vars

(***************************************************************************)
(* C30: whatever the interleaving of the audio thread's process with a     *)
(* set_bands or set_gain of the control thread, a tick reads a band count  *)
(* and a gain array that belong together: the band count it iterates over  *)
(* is the length of the gain array it indexes.                             *)
(***************************************************************************)
C30_TickReadsConsistentParameters ==
    \A k \in 1..Len(tick.seen) : tick.seen[k].bands = tick.seen[k].gains_len


(***************************************************************************)
(* C31: while device monitoring is running, every change of the host's     *)
(* devices (one added, removed, or replaced by another) is eventually      *)
(* followed by a refresh: the device list is the enumeration of the host   *)
(* again and every category's assigned device is one the host has.         *)
(***************************************************************************)
HostIndices == {i - 1 : i \in 1..Len(host)}

Refreshed ==
    /\ devices = EnumerateDevices(host)
    /\ \A t \in DOMAIN active_devices : active_devices[t].index \in HostIndices

C31_TopologyChangeIsRefreshed ==
    (monitoring /\ monCall.changed /\ ~Refreshed) ~> (~monitoring \/ Refreshed)


(***************************************************************************)
(* C35: however start_device_monitoring and stop_device_monitoring are     *)
(* interleaved with the monitor's sleep loop, at most one                  *)
(* _monitor_devices thread is alive at any time, and once                  *)
(* stop_device_monitoring has returned no monitor thread runs              *)
(* refresh_devices until monitoring is started again.                      *)
(***************************************************************************)
StopReturned == monCall.op = "stop_device_monitoring" /\ monCall.pc = "done"

C35_OneMonitorThreadNoneAfterStop ==
    /\ Cardinality(LiveThreads) <= 1
    /\ StopReturned => routeCall.op # "refresh_devices"


(***************************************************************************)
(* C32: after remove_audio_processing(category, p) has returned True, p is *)
(* not in the chain of the bus the category's route names, whatever        *)
(* apply_audio_processing and remove_audio_processing calls came before    *)
(* (the same processor applied several times included).                    *)
(***************************************************************************)
C32_RemovedProcessorLeavesChain ==
    (sessCall.op = "remove_audio_processing" /\ sessCall.ret = "True")
        => sessCall.processor \notin Range(RoutedChain(sessCall.category))


(***************************************************************************)
(* C33: a create_route call that fails (unknown category, device id not    *)
(* enumerated, or device direction not matching the category) leaves the   *)
(* route table, the virtual buses and the category-to-device assignments   *)
(* exactly as they were before the call.                                   *)
(***************************************************************************)
CreateRouteFailed(call, logged) ==
    /\ call.op = "create_route" /\ logged.op = "create_route"
    /\ call.raised # "None"

C33_FailedCreateRouteChangesNothing ==
    [][CreateRouteFailed(routeCall', sessCall')
          => UNCHANGED <<routes, virtual_devices, active_devices>>]_vars

\* a create_route for a known category and an enumerated device of the
\* wrong direction has failed with routes, a bus and assignments in place
C33_Witness ==
    /\ CreateRouteFailed(routeCall, sessCall)
    /\ sessCall.category \in Range(AudioTypes)
    /\ FindDevice(devices, sessCall.device) # NoDevice
    /\ DOMAIN routes # {} /\ DOMAIN active_devices # {}
    /\ virtual_devices # <<>>


(***************************************************************************)
(* C34: every device index that get_input_devices() lists can be assigned  *)
(* to the microphone category and every index that get_output_devices()    *)
(* lists can be assigned to an output category, a device with both input   *)
(* and output channels (listed in both under one index) included.          *)
(***************************************************************************)
ListedIndices(devs, type) ==
    {devs[k].index : k \in {j \in 1..Len(devs) : devs[j].type = type}}

C34_ListedDeviceIsAssignable ==
    [][(/\ sessCall'.op = "set_device_for_audio_type"
        /\ sessCall'.device \in
              ListedIndices(devices, IF sessCall'.category = "microphone"
                                     THEN "input" ELSE "output"))
          => sessCall'.raised = "None"]_vars


(***************************************************************************)
(* C36: a set_unified_device_mode call that fails (a device id that is not *)
(* enumerated or is of the wrong direction makes it raise) leaves the      *)
(* unified configuration (enabled flag, unified output device, unified     *)
(* input device) and every category-to-device assignment as they were      *)
(* before the call.                                                        *)
(***************************************************************************)
C36_FailedUnifiedModeChangesNothing ==
    [][(routeCall'.op = "set_unified_device_mode" /\ routeCall'.raised # "None")
          => UNCHANGED <<unified_device_mode, unified_output_device,
                         unified_input_device, active_devices>>]_vars


(***************************************************************************)
(* C37: whenever set_session_category(pid, category) returns False the     *)
(* session-to-category map is as it was before the call, and whenever it   *)
(* returns True get_session_category(pid) returns category.                *)
(***************************************************************************)
\* AudioRoutingSystem.get_session_category: self.session_categories.get(pid)
GetSessionCategory(cats, pid) == IF pid \in DOMAIN cats THEN cats[pid] ELSE "None"

C37_SessionCategoryFollowsResult ==
    [][sessCall'.op = "set_session_category"
          => /\ sessCall'.ret = "False" => UNCHANGED session_categories
             /\ sessCall'.ret = "True"
                   => GetSessionCategory(session_categories', sessCall'.pid)
                          = sessCall'.category]_vars


(***************************************************************************)
(* C38: after refresh_devices completes, no category-to-device assignment  *)
(* and no stored route references a device index that is absent from the   *)
(* new enumeration.                                                        *)
(***************************************************************************)
EnumeratedIndices(devs) == {devs[k].index : k \in 1..Len(devs)}

C38_RefreshDropsVanishedDevices ==
    [][routeCall'.op = "refresh_devices"
          => /\ \A t \in DOMAIN active_devices' :
                   active_devices'[t].index \in EnumeratedIndices(devices')
             /\ \A t \in DOMAIN routes' :
                   routes'[t].device \in EnumeratedIndices(devices')]_vars


(***************************************************************************)
(* C39: after any sequence of create_virtual_device, remove_virtual_device,*)
(* route_audio and remove_route on the VirtualAudioRouter, every entry of  *)
(* the routing table has a source and a destination that both name an      *)
(* existing bus, and every removed bus was stopped (inactive, no stream    *)
(* handle) before it left the table of buses.                              *)
(***************************************************************************)
RoutesNameBuses(table, vds) ==
    \A source \in DOMAIN table :
        source \in BusNames(vds) /\ table[source] \in BusNames(vds)

C39_RouterTablesStayConsistent ==
    [][/\ RoutesNameBuses(routing_table', virtual_devices')
       /\ (/\ busCall'.op = "remove_virtual_device"
           /\ busCall'.bus \in BusNames(virtual_devices))
             => (~busCall'.is_active /\ busCall'.stream = "None")]_vars

=============================================================================
